---- MODULE Spec2Model ----
(***************************************************************************)
(* A model of the CodeBuddy coding assistant: the plan parser and the      *)
(* parameter decoder of CodingAgent, the risk classifier and approval gate *)
(* of SafetyApprovalSystem, the turn of CodingAgent.process_request, and   *)
(* the legacy Agent with its ReAct loop.                                   *)
(*                                                                         *)
(* Texts are sequences of one-character strings, so that the regular       *)
(* expressions, the substring tests and the trimming of the source are     *)
(* computed character by character.                                        *)
(***************************************************************************)
EXTENDS Naturals, Integers, Sequences, FiniteSets, TLC

(***************************************************************************)
(* Characters and the string methods the source uses.                      *)
(***************************************************************************)
Uppers == <<"A","B","C","D","E","F","G","H","I","J","K","L","M",
            "N","O","P","Q","R","S","T","U","V","W","X","Y","Z">>
Lowers == <<"a","b","c","d","e","f","g","h","i","j","k","l","m",
            "n","o","p","q","r","s","t","u","v","w","x","y","z">>
Digits == {"0","1","2","3","4","5","6","7","8","9"}
Letters == {Uppers[i] : i \in 1..26} \cup {Lowers[i] : i \in 1..26}

\* \w of Python's re: a letter, a digit or the underscore.
IsWord(c) == c \in Letters \cup Digits \cup {"_"}

\* \s of Python's re and the characters str.strip() removes.
IsSpace(c) == c \in {" ", "\n", "\t", "\r"}

IsQuote(c) == c \in {"\"", "'"}

\* str.lower() on one character.
LowerChar(c) ==
    IF \E i \in 1..26 : Uppers[i] = c
    THEN Lowers[CHOOSE i \in 1..26 : Uppers[i] = c]
    ELSE c

\* str.lower()
Lower(s) == [i \in 1..Len(s) |-> LowerChar(s[i])]

\* s[a..b] with an empty result when b < a.
Slice(s, a, b) == IF b < a THEN <<>> ELSE SubSeq(s, a, b)

\* sub occurs in s at position i.
MatchAt(s, i, sub) ==
    /\ i >= 1
    /\ i + Len(sub) - 1 <= Len(s)
    /\ \A k \in 1..Len(sub) : s[i + k - 1] = sub[k]

\* Python's `sub in s`.
Contains(s, sub) == \E i \in 1..(Len(s) + 1) : MatchAt(s, i, sub)

\* any(p in s for p in patterns)
ContainsAny(s, patterns) == \E p \in patterns : Contains(s, p)

\* str.startswith
StartsWith(s, prefix) == MatchAt(s, 1, prefix)

\* str.strip(): leading and trailing whitespace removed.
Strip(s) ==
    LET N == Len(s)
        nonsp == {i \in 1..N : ~IsSpace(s[i])}
    IN  IF nonsp = {} THEN <<>>
        ELSE LET a == CHOOSE i \in nonsp : \A j \in nonsp : i <= j
                 b == CHOOSE i \in nonsp : \A j \in nonsp : j <= i
             IN  SubSeq(s, a, b)

\* str.strip('\'"'): leading and trailing quote characters removed.
StripQuotes(s) ==
    LET N == Len(s)
        keep == {i \in 1..N : ~IsQuote(s[i])}
    IN  IF keep = {} THEN <<>>
        ELSE LET a == CHOOSE i \in keep : \A j \in keep : i <= j
                 b == CHOOSE i \in keep : \A j \in keep : j <= i
             IN  SubSeq(s, a, b)

\* The least element of a non-empty set of positions.
Min(S) == CHOOSE i \in S : \A j \in S : i <= j

\* The last position of the run of word characters that starts at p.
WordRunEnd(s, p) ==
    LET stops == {i \in p..Len(s) : ~IsWord(s[i])}
    IN  IF stops = {} THEN Len(s) ELSE Min(stops) - 1

\* The first position of the run of word characters that ends at q, not
\* left of position lo.
WordRunStart(s, q, lo) ==
    LET stops == {i \in lo..q : ~IsWord(s[i])}
    IN  IF stops = {} THEN lo
        ELSE (CHOOSE i \in stops : \A j \in stops : j <= i) + 1

(***************************************************************************)
(* Python dictionaries: a sequence of key/value pairs in insertion order,  *)
(* keys unique.  Assigning to a key that is present replaces its value in  *)
(* place; a new key is appended.                                           *)
(***************************************************************************)
DictKeys(d) == {d[i].k : i \in 1..Len(d)}

DictHas(d, key) == key \in DictKeys(d)

DictGet(d, key) == d[CHOOSE i \in 1..Len(d) : d[i].k = key].v

DictSet(d, key, val) ==
    IF DictHas(d, key)
    THEN [i \in 1..Len(d) |-> IF d[i].k = key THEN [k |-> key, v |-> val] ELSE d[i]]
    ELSE Append(d, [k |-> key, v |-> val])

\* dict.get(key, default)
DictGetOr(d, key, default) == IF DictHas(d, key) THEN DictGet(d, key) ELSE default

(***************************************************************************)
(* CodingAgent._parse_tool_params: the parameter decoder.                  *)
(***************************************************************************)
TripleQuote == <<"\"","\"","\"">>

\* re.findall(r'(\w+)="""(.*?)"""', params_str, re.DOTALL) from position p.
RECURSIVE TripleMatches(_, _)
TripleMatches(s, p) ==
    LET opens == {m \in (p + 1)..Len(s) :
                    /\ s[m] = "="
                    /\ IsWord(s[m - 1])
                    /\ MatchAt(s, m + 1, TripleQuote)
                    /\ \E e \in (m + 4)..Len(s) : MatchAt(s, e, TripleQuote)}
    IN  IF opens = {} THEN <<>>
        ELSE LET m == Min(opens)
                 e == Min({x \in (m + 4)..Len(s) : MatchAt(s, x, TripleQuote)})
             IN  <<[k |-> Slice(s, WordRunStart(s, m - 1, p), m - 1),
                    v |-> Slice(s, m + 4, e - 1)]>>
                 \o TripleMatches(s, e + 3)

\* re.sub(rf'{key}=""".*?"""', '', params_str, flags=re.DOTALL) from position p.
RECURSIVE RemoveTriple(_, _, _)
RemoveTriple(s, key, p) ==
    LET pat == key \o <<"=">> \o TripleQuote
        hits == {i \in p..Len(s) :
                    /\ MatchAt(s, i, pat)
                    /\ \E e \in (i + Len(pat))..Len(s) : MatchAt(s, e, TripleQuote)}
    IN  IF hits = {} THEN Slice(s, p, Len(s))
        ELSE LET i == Min(hits)
                 e == Min({x \in (i + Len(pat))..Len(s) : MatchAt(s, x, TripleQuote)})
             IN  Slice(s, p, i - 1) \o RemoveTriple(s, key, e + 3)

\* re.findall(r'(\w+)=(["\'])(.*?)\2', params_str) from position p: the value
\* ends at the next quote of the opening kind and holds no line break.
RECURSIVE QuotedMatches(_, _)
QuotedMatches(s, p) ==
    LET Closers(m) == {e \in (m + 2)..Len(s) : s[e] = s[m + 1]}
        opens == {m \in (p + 1)..(Len(s) - 1) :
                    /\ s[m] = "="
                    /\ IsWord(s[m - 1])
                    /\ IsQuote(s[m + 1])
                    /\ Closers(m) # {}
                    /\ \A t \in (m + 2)..(Min(Closers(m)) - 1) : s[t] # "\n"}
    IN  IF opens = {} THEN <<>>
        ELSE LET m == Min(opens)
                 e == Min(Closers(m))
             IN  <<[k |-> Slice(s, WordRunStart(s, m - 1, p), m - 1),
                    v |-> Slice(s, m + 2, e - 1)]>>
                 \o QuotedMatches(s, e + 1)

\* re.sub(rf'{key}=["\'][^"\']*["\']', '', params_str) from position p: the key,
\* a quote of either kind, and everything up to the next quote of either kind.
RECURSIVE RemoveQuoted(_, _, _)
RemoveQuoted(s, key, p) ==
    LET pat == key \o <<"=">>
        hits == {i \in p..Len(s) :
                    /\ MatchAt(s, i, pat)
                    /\ i + Len(pat) <= Len(s)
                    /\ IsQuote(s[i + Len(pat)])
                    /\ \E e \in (i + Len(pat) + 1)..Len(s) : IsQuote(s[e])}
    IN  IF hits = {} THEN Slice(s, p, Len(s))
        ELSE LET i == Min(hits)
                 e == Min({x \in (i + Len(pat) + 1)..Len(s) : IsQuote(s[x])})
             IN  Slice(s, p, i - 1) \o RemoveQuoted(s, key, e + 1)

\* [^,\s)]
IsBareChar(c) == ~IsSpace(c) /\ c # "," /\ c # ")"

\* re.findall(r'(\w+)=([^,\s)]+)', params_str) from position p.
RECURSIVE UnquotedMatches(_, _)
UnquotedMatches(s, p) ==
    LET opens == {m \in (p + 1)..(Len(s) - 1) :
                    /\ s[m] = "="
                    /\ IsWord(s[m - 1])
                    /\ IsBareChar(s[m + 1])}
    IN  IF opens = {} THEN <<>>
        ELSE LET m == Min(opens)
                 stops == {i \in (m + 1)..Len(s) : ~IsBareChar(s[i])}
                 e == IF stops = {} THEN Len(s) ELSE Min(stops) - 1
             IN  <<[k |-> Slice(s, WordRunStart(s, m - 1, p), m - 1),
                    v |-> Slice(s, m + 1, e)]>>
                 \o UnquotedMatches(s, e + 1)

\* str.split(sep) for a one-character separator.
RECURSIVE SplitOn(_, _)
SplitOn(s, sep) ==
    LET at == {i \in 1..Len(s) : s[i] = sep}
    IN  IF at = {} THEN <<s>>
        ELSE <<Slice(s, 1, Min(at) - 1)>> \o SplitOn(Slice(s, Min(at) + 1, Len(s)), sep)

\* [p.strip() for p in params_str.split(',') if p.strip()]
StrippedParts(s) ==
    LET parts == SplitOn(s, ",")
    IN  SelectSeq([i \in 1..Len(parts) |-> Strip(parts[i])], LAMBDA x : x # <<>>)

\* The parameter name mappings of _normalize_parameter_names.
name_mappings ==
    << [k |-> <<"f","o","l","d","e","r","_","p","a","t","h">>,    v |-> <<"f","o","l","d","e","r","p","a","t","h">>],
       [k |-> <<"d","i","r","e","c","t","o","r","y","_","p","a","t","h">>, v |-> <<"f","o","l","d","e","r","p","a","t","h">>],
       [k |-> <<"d","i","r","_","p","a","t","h">>,       v |-> <<"f","o","l","d","e","r","p","a","t","h">>],
       [k |-> <<"f","o","l","d","e","r","_","n","a","m","e">>,    v |-> <<"f","o","l","d","e","r","p","a","t","h">>],
       [k |-> <<"d","i","r","e","c","t","o","r","y","_","n","a","m","e">>, v |-> <<"f","o","l","d","e","r","p","a","t","h">>],
       [k |-> <<"p","a","t","h">>,           v |-> <<"f","o","l","d","e","r","p","a","t","h">>],
       [k |-> <<"f","i","l","e","_","p","a","t","h">>,      v |-> <<"f","i","l","e","p","a","t","h">>],
       [k |-> <<"f","i","l","e","n","a","m","e">>,       v |-> <<"f","i","l","e","p","a","t","h">>],
       [k |-> <<"f","i","l","e","_","n","a","m","e">>,      v |-> <<"f","i","l","e","p","a","t","h">>],
       [k |-> <<"c","m","d">>,            v |-> <<"c","o","m","m","a","n","d">>],
       [k |-> <<"s","h","e","l","l","_","c","o","m","m","a","n","d">>,  v |-> <<"c","o","m","m","a","n","d">>],
       [k |-> <<"f","i","l","e","_","c","o","n","t","e","n","t">>,   v |-> <<"c","o","n","t","e","n","t">>],
       [k |-> <<"c","o","d","e">>,           v |-> <<"c","o","n","t","e","n","t">>],
       [k |-> <<"t","e","x","t">>,           v |-> <<"c","o","n","t","e","n","t">>] >>

\* for key, value in params.items(): normalized[name_mappings.get(key, key)] = value
RECURSIVE NormalizeFrom(_, _, _)
NormalizeFrom(params, i, normalized) ==
    IF i > Len(params) THEN normalized
    ELSE NormalizeFrom(params, i + 1,
            DictSet(normalized, DictGetOr(name_mappings, params[i].k, params[i].k),
                    params[i].v))

_normalize_parameter_names(params) == NormalizeFrom(params, 1, <<>>)

\* Strategy 1 of the decoder: for key, value in triple_matches: params[key] =
\* value.strip(); the match is cut out of params_str.
RECURSIVE TriplePass(_, _, _, _)
TriplePass(matches, i, params, str) ==
    IF i > Len(matches) THEN [params |-> params, str |-> str]
    ELSE TriplePass(matches, i + 1,
                    DictSet(params, matches[i].k, Strip(matches[i].v)),
                    RemoveTriple(str, matches[i].k, 1))

\* Strategy 2 of the decoder: for match in matches: params[key] = value; the
\* parameter is cut out of params_str.
RECURSIVE QuotedPass(_, _, _, _)
QuotedPass(matches, i, params, str) ==
    IF i > Len(matches) THEN [params |-> params, str |-> str]
    ELSE QuotedPass(matches, i + 1,
                    DictSet(params, matches[i].k, matches[i].v),
                    RemoveQuoted(str, matches[i].k, 1))

\* Strategy 3 of the decoder: unquoted parameters never override a key that
\* is already set.
RECURSIVE UnquotedPass(_, _, _)
UnquotedPass(matches, i, params) ==
    IF i > Len(matches) THEN params
    ELSE UnquotedPass(matches, i + 1,
                      IF DictHas(params, matches[i].k) THEN params
                      ELSE DictSet(params, matches[i].k, Strip(matches[i].v)))

\* Strategy 4 of the decoder: positional parameters, tried only when no named
\* parameter was found.
PositionalPass(params, str) ==
    LET parts == StrippedParts(str)
        first == StripQuotes(parts[1])
        named == IF Contains(first, <<".">>) \/ Contains(first, <<"/">>)
                    \/ Contains(first, <<"\\">>)
                 THEN <<[k |-> <<"f","i","l","e","p","a","t","h">>, v |-> first]>>
                 ELSE <<[k |-> <<"f","o","l","d","e","r","p","a","t","h">>, v |-> first]>>
    IN  IF params # <<>> \/ Strip(str) = <<>> \/ parts = <<>> THEN params
        ELSE IF Len(parts) > 1
             THEN DictSet(named, <<"c","o","n","t","e","n","t">>, StripQuotes(parts[2]))
             ELSE named

_parse_tool_params(params_str) ==
    IF Strip(params_str) = <<>> THEN <<>>
    ELSE LET t == TriplePass(TripleMatches(params_str, 1), 1, <<>>, params_str)
             q == QuotedPass(QuotedMatches(t.str, 1), 1, t.params, t.str)
             u == UnquotedPass(UnquotedMatches(q.str, 1), 1, q.params)
         IN  _normalize_parameter_names(PositionalPass(u, q.str))

(***************************************************************************)
(* Plans.  A plan is a record with the keys of the dictionaries the source *)
(* builds: "type", and "tool"/"params" for a tool execution or "response"  *)
(* for a conversation; the keys a variant does not have are empty here.    *)
(***************************************************************************)
ToolPlan(tool, params, raw) ==
    [type |-> "tool_execution", tool |-> tool, params |-> params, response |-> raw]

ConversationPlan(text) ==
    [type |-> "conversation", tool |-> <<>>, params |-> <<>>, response |-> text]

\* The value _infer_tool_from_natural_language returns when nothing matches.
None == [type |-> "none", tool |-> <<>>, params |-> <<>>, response |-> <<>>]

T_write_file    == <<"w","r","i","t","e","_","f","i","l","e">>
T_read_file     == <<"r","e","a","d","_","f","i","l","e">>
T_list_files    == <<"l","i","s","t","_","f","i","l","e","s">>
T_create_folder == <<"c","r","e","a","t","e","_","f","o","l","d","e","r">>
T_delete_file   == <<"d","e","l","e","t","e","_","f","i","l","e">>
T_delete_folder == <<"d","e","l","e","t","e","_","f","o","l","d","e","r">>
T_run_python    == <<"r","u","n","_","p","y","t","h","o","n">>
T_run_command   == <<"r","u","n","_","c","o","m","m","a","n","d">>
T_check_syntax  == <<"c","h","e","c","k","_","s","y","n","t","a","x">>
T_git_status    == <<"g","i","t","_","s","t","a","t","u","s">>
T_git_commit    == <<"g","i","t","_","c","o","m","m","i","t">>
T_git_push      == <<"g","i","t","_","p","u","s","h">>
T_git_pull      == <<"g","i","t","_","p","u","l","l">>

K_filepath   == <<"f","i","l","e","p","a","t","h">>
K_folderpath == <<"f","o","l","d","e","r","p","a","t","h">>
K_content    == <<"c","o","n","t","e","n","t">>
K_command    == <<"c","o","m","m","a","n","d">>
K_directory  == <<"d","i","r","e","c","t","o","r","y">>
K_message    == <<"m","e","s","s","a","g","e">>
K_branch     == <<"b","r","a","n","c","h">>
K_remote     == <<"r","e","m","o","t","e">>

\* [a-zA-Z0-9_./]
IsPathChar(c) == IsWord(c) \/ c \in {".", "/"}

\* [a-zA-Z_]
IsNameStart(c) == c \in Letters \cup {"_"}

\* The last position of the run of path characters that starts after i.
PathRunEnd(s, i) ==
    LET stops == {x \in (i + 1)..Len(s) : ~IsPathChar(s[x])}
    IN  IF stops = {} THEN Len(s) ELSE Min(stops) - 1

\* The positions of a dot that can end the greedy [a-zA-Z0-9_./]* of a match
\* starting at i, the dot being followed by After(d).
DotsFrom(s, i, After(_)) ==
    {d \in (i + 1)..PathRunEnd(s, i) : s[d] = "." /\ After(d)}

Max(S) == CHOOSE i \in S : \A j \in S : j <= i

\* re.search(r'([a-zA-Z_][a-zA-Z0-9_./]*\.[a-zA-Z]+)', user_input): the
\* leftmost start, the last dot of the run that a letter follows, and all
\* the letters after it.  <<>> when there is no match.
FilenameMatch(s) ==
    LET After(d) == d + 1 <= Len(s) /\ s[d + 1] \in Letters
        starts == {i \in 1..Len(s) : IsNameStart(s[i]) /\ DotsFrom(s, i, After) # {}}
    IN  IF starts = {} THEN <<>>
        ELSE LET i == Min(starts)
                 d == Max(DotsFrom(s, i, After))
                 stops == {x \in (d + 1)..Len(s) : s[x] \notin Letters}
                 e == IF stops = {} THEN Len(s) ELSE Min(stops) - 1
             IN  SubSeq(s, i, e)

\* re.search(r'([a-zA-Z_][a-zA-Z0-9_./]*\.py)', user_input)
PyFilenameMatch(s) ==
    LET After(d) == MatchAt(s, d, <<".","p","y">>)
        starts == {i \in 1..Len(s) : IsNameStart(s[i]) /\ DotsFrom(s, i, After) # {}}
    IN  IF starts = {} THEN <<>>
        ELSE LET i == Min(starts)
                 d == Max(DotsFrom(s, i, After))
             IN  SubSeq(s, i, d + 2)

\* str.split(): the maximal runs of characters that are not whitespace.
RECURSIVE Words(_)
Words(s) ==
    LET nonsp == {i \in 1..Len(s) : ~IsSpace(s[i])}
    IN  IF nonsp = {} THEN <<>>
        ELSE LET a == Min(nonsp)
                 stops == {i \in a..Len(s) : IsSpace(s[i])}
                 b == IF stops = {} THEN Len(s) ELSE Min(stops) - 1
             IN  <<SubSeq(s, a, b)>> \o Words(Slice(s, b + 1, Len(s)))

FileExtensions == {<<".","p","y">>, <<".","t","x","t">>, <<".","j","s">>, <<".","m","d">>}

\* The content _infer_tool_from_natural_language generates for a new file.
InferredContent(user_lower, filename) ==
    IF Contains(user_lower, <<"h","e","l","l","o">>)
    THEN <<"p","r","i","n","t","(","\"","H","e","l","l","o",","," ","W","o","r","l","d","!","\"",")">>
    ELSE IF Contains(user_lower, <<"c","a","l","c","u","l","a","t","o","r">>)
    THEN <<"d","e","f"," ","a","d","d","(","a",","," ","b",")",":","\n"," "," "," "," ","r","e","t","u","r","n"," ","a"," ","+"," ","b","\n","\n","d","e","f"," ","s","u","b","t","r","a","c","t","(","a",","," ","b",")",":","\n"," "," "," "," ","r","e","t","u","r","n"," ","a"," ","-"," ","b","\n","\n","p","r","i","n","t","(","\"","S","i","m","p","l","e"," ","c","a","l","c","u","l","a","t","o","r"," ","f","u","n","c","t","i","o","n","s"," ","c","r","e","a","t","e","d","\"",")">>
    ELSE <<"#"," ">> \o filename
         \o <<" ","-"," ","C","r","e","a","t","e","d"," ","b","y"," ","C","o","d","i","n","g","A","g","e","n","t","\n","p","r","i","n","t","(","\"","F","i","l","e"," ","c","r","e","a","t","e","d"," ","s","u","c","c","e","s","s","f","u","l","l","y","!","\"",")">>

\* The folder name of the folder-creation inference: the word after the
\* first "folder" or "directory" that has a successor, else "new_folder".
InferredFolder(user_input) ==
    LET words == Words(user_input)
        at == {i \in 1..(Len(words) - 1) :
                 Lower(words[i]) \in {<<"f","o","l","d","e","r">>, <<"d","i","r","e","c","t","o","r","y">>}}
    IN  IF at = {} THEN <<"n","e","w","_","f","o","l","d","e","r">> ELSE words[Min(at) + 1]

\* An inference that answers a request to delete a file with a delete_file
\* plan.
_infer_deletion(response, user_input) ==
    IF Contains(Lower(user_input), <<"d","e","l","e","t","e">>) /\ FilenameMatch(user_input) # <<>>
    THEN ToolPlan(T_delete_file,
                  <<[k |-> K_filepath, v |-> FilenameMatch(user_input)]>>,
                  response)
    ELSE None

\* CodingAgent._infer_tool_from_natural_language: the heuristics in the
\* order of the source; a heuristic whose keywords match but whose filename
\* search fails falls through to the next one.
_infer_tool_from_natural_language(response, user_input) ==
    LET user_lower == Lower(user_input)
        filename == FilenameMatch(user_input)
        pyname == PyFilenameMatch(user_input)
        hasExt == \E ext \in FileExtensions : Contains(user_lower, ext)
    IN  IF /\ ContainsAny(user_lower, {<<"c","r","e","a","t","e">>, <<"m","a","k","e">>, <<"w","r","i","t","e">>})
           /\ hasExt
           /\ filename # <<>>
        THEN ToolPlan(T_write_file,
                      <<[k |-> K_filepath, v |-> filename],
                        [k |-> K_content, v |-> InferredContent(user_lower, filename)]>>,
                      response)
        ELSE IF /\ Contains(user_lower, <<"c","r","e","a","t","e">>)
                /\ ContainsAny(user_lower, {<<"f","o","l","d","e","r">>, <<"d","i","r","e","c","t","o","r","y">>})
        THEN ToolPlan(T_create_folder,
                      <<[k |-> K_folderpath, v |-> InferredFolder(user_input)]>>,
                      response)
        ELSE IF /\ ContainsAny(user_lower, {<<"s","h","o","w">>, <<"r","e","a","d">>, <<"d","i","s","p","l","a","y">>})
                /\ hasExt
                /\ filename # <<>>
        THEN ToolPlan(T_read_file, <<[k |-> K_filepath, v |-> filename]>>, response)
        ELSE IF /\ Contains(user_lower, <<"r","u","n">>)
                /\ Contains(user_lower, <<".","p","y">>)
                /\ pyname # <<>>
        THEN ToolPlan(T_run_python, <<[k |-> K_filepath, v |-> pyname]>>, response)
        ELSE IF /\ Contains(user_lower, <<"l","i","s","t">>)
                /\ ContainsAny(user_lower, {<<"f","i","l","e">>, <<"d","i","r","e","c","t","o","r","y">>})
        THEN ToolPlan(T_list_files, <<[k |-> K_directory, v |-> <<".">>]>>, response)
        ELSE None

\* Strategy 1 of _parse_llm_response:
\* re.search(r'(\w+)\((.*)\)$', response, re.DOTALL).  The positions of an
\* opening parenthesis that a word character precedes and the closing
\* parenthesis at the end of the text follows.
Strategy1Opens(s) ==
    IF Len(s) >= 3 /\ s[Len(s)] = ")"
    THEN {j \in 2..(Len(s) - 1) : s[j] = "(" /\ IsWord(s[j - 1])}
    ELSE {}

\* The plan of strategy 1: the first word before a parenthesis is the tool,
\* and everything up to the last character of the text its argument text.
\* The name is not looked up in the registry.
Strategy1Plan(s) ==
    LET j == Min(Strategy1Opens(s))
    IN  ToolPlan(Slice(s, WordRunStart(s, j - 1, 1), j - 1),
                 _parse_tool_params(Slice(s, j + 1, Len(s) - 1)),
                 s)

\* Strategy 2: re.findall(r'(\w+)\(([^)]*(?:\([^)]*\)[^)]*)*)\)', response,
\* re.DOTALL) from position p.  The greedy [^)]* runs to the first closing
\* parenthesis, which then ends the match: the optional nested group never
\* takes part.
RECURSIVE Strategy2Matches(_, _)
Strategy2Matches(s, p) ==
    LET Closers(j) == {x \in (j + 1)..Len(s) : s[x] = ")"}
        opens == {j \in (p + 1)..Len(s) :
                    s[j] = "(" /\ IsWord(s[j - 1]) /\ Closers(j) # {}}
    IN  IF opens = {} THEN <<>>
        ELSE LET j == Min(opens)
                 e == Min(Closers(j))
             IN  <<[k |-> Slice(s, WordRunStart(s, j - 1, p), j - 1),
                    v |-> Slice(s, j + 1, e - 1)]>>
                 \o Strategy2Matches(s, e + 1)

\* for tool_name, params_str in all_matches: if tool_name in self.tools
Strategy2Valid(s, tools) ==
    SelectSeq(Strategy2Matches(s, 1), LAMBDA m : m.k \in tools)

\* A parser that hands every text on untouched as a conversation.
_parse_llm_response_verbatim(raw, user_input, tools) == ConversationPlan(raw)

\* CodingAgent._parse_llm_response
_parse_llm_response(raw, user_input, tools) ==
    LET response == Strip(raw)
        valid == Strategy2Valid(response, tools)
        inferred == _infer_tool_from_natural_language(response, user_input)
    IN  IF Strategy1Opens(response) # {} THEN Strategy1Plan(response)
        ELSE IF valid # <<>>
        THEN ToolPlan(valid[1].k, _parse_tool_params(valid[1].v), response)
        ELSE IF inferred # None THEN inferred
        ELSE ConversationPlan(response)

(***************************************************************************)
(* The file system as the risk rules and the file tools see it: a function *)
(* from the paths that exist to what is there.  A file has a size in       *)
(* bytes, a directory a number of entries.                                 *)
(***************************************************************************)
File(size) == [kind |-> "file", size |-> size, items |-> 0]

Dir(items) == [kind |-> "dir", size |-> 0, items |-> items]

\* os.path.exists
Exists(fs, path) == path \in DOMAIN fs

FsPut(fs, path, entry) ==
    [p \in DOMAIN fs \cup {path} |-> IF p = path THEN entry ELSE fs[p]]

FsRemove(fs, path) == [p \in DOMAIN fs \ {path} |-> fs[p]]

\* os.path.basename: what follows the last slash.
Basename(path) ==
    LET slashes == {i \in 1..Len(path) : path[i] = "/"}
    IN  IF slashes = {} THEN path ELSE Slice(path, Max(slashes) + 1, Len(path))

(***************************************************************************)
(* SafetyApprovalSystem: the risk rules.  A rule yields a RiskLevel value, *)
(* or TypeError when unpacking the parameter map cannot bind a parameter the   *)
(* rule requires.                                                          *)
(***************************************************************************)
RiskLevels == {"safe", "low", "medium", "high", "critical"}

TypeError == "TypeError"

MegaByte == 1048576

TenKiloBytes == 10240

ManyItems == 50

SomeItems == 10

_assess_file_deletion_risk(fs, params) ==
    LET filepath == DictGet(params, K_filepath)
        critical_patterns == {<<"m","a","i","n",".","p","y">>, <<"r","e","q","u","i","r","e","m","e","n","t","s",".","t","x","t">>, <<".","e","n","v">>, <<"c","o","n","f","i","g">>,
                              <<"d","a","t","a","b","a","s","e">>, <<".","g","i","t">>, <<"p","a","c","k","a","g","e",".","j","s","o","n">>, <<"C","a","r","g","o",".","t","o","m","l">>}
        filename == Lower(Basename(filepath))
    IN  IF ~DictHas(params, K_filepath) THEN TypeError
        ELSE IF ~Exists(fs, filepath) THEN "safe"
        ELSE IF ContainsAny(filename, critical_patterns) THEN "high"
        ELSE IF fs[filepath].size > MegaByte THEN "medium"
        ELSE IF fs[filepath].size > TenKiloBytes THEN "low"
        ELSE "low"

_assess_folder_deletion_risk(fs, params) ==
    LET folderpath == DictGet(params, K_folderpath)
        critical_dirs == {<<".","g","i","t">>, <<"n","o","d","e","_","m","o","d","u","l","e","s">>, <<"_","_","p","y","c","a","c","h","e","_","_">>, <<".","v","e","n","v">>, <<"v","e","n","v">>,
                          <<"s","r","c">>, <<"l","i","b">>, <<"b","i","n">>, <<"c","o","r","e">>, <<"s","y","s","t","e","m">>}
        dirname == Lower(Basename(folderpath))
        folderpath_lower == Lower(folderpath)
        item_count == fs[folderpath].items
    IN  IF ~DictHas(params, K_folderpath) THEN TypeError
        ELSE IF ~Exists(fs, folderpath) THEN "safe"
        ELSE IF \E critical \in critical_dirs :
                    Contains(dirname, critical) \/ Contains(folderpath_lower, critical)
        THEN "high"
        \* os.listdir of a path that is no directory raises, and the bare
        \* except passes on to the final return.
        ELSE IF fs[folderpath].kind # "dir" THEN "low"
        ELSE IF item_count > ManyItems THEN "high"
        ELSE IF item_count > SomeItems THEN "medium"
        ELSE IF item_count > 0 THEN "low"
        ELSE "low"

_assess_file_write_risk(fs, params) ==
    LET filepath == DictGet(params, K_filepath)
        critical_patterns == {<<"m","a","i","n",".","p","y">>, <<"r","e","q","u","i","r","e","m","e","n","t","s",".","t","x","t">>, <<".","e","n","v">>, <<"c","o","n","f","i","g">>}
        filename == Lower(Basename(filepath))
    IN  IF ~DictHas(params, K_filepath) THEN TypeError
        ELSE IF Exists(fs, filepath)
        THEN IF ContainsAny(filename, critical_patterns) THEN "medium" ELSE "low"
        ELSE "safe"

critical_commands ==
    {<<"r","m"," ","-","r","f">>, <<"d","e","l"," ","/","f">>, <<"f","o","r","m","a","t">>, <<"f","d","i","s","k">>, <<"m","k","f","s">>,
     <<"s","h","u","t","d","o","w","n">>, <<"r","e","b","o","o","t">>, <<"h","a","l","t">>, <<"p","o","w","e","r","o","f","f">>,
     <<"d","d"," ","i","f","=">>, <<"c","h","m","o","d"," ","7","7","7">>, <<"c","h","o","w","n"," ","r","o","o","t">>, <<"s","u","d","o"," ","r","m">>}

high_risk ==
    {<<"r","m"," ">>, <<"d","e","l"," ">>, <<"r","m","d","i","r">>, <<"m","o","v","e">>, <<"m","v"," ">>,
     <<"c","h","m","o","d">>, <<"c","h","o","w","n">>, <<"s","u","d","o">>, <<"s","u"," ">>,
     <<"k","i","l","l">>, <<"p","k","i","l","l">>, <<"k","i","l","l","a","l","l">>}

medium_risk ==
    {<<"c","p"," ">>, <<"c","o","p","y">>, <<"w","g","e","t">>, <<"c","u","r","l">>, <<"g","i","t"," ","p","u","s","h">>,
     <<"n","p","m"," ","i","n","s","t","a","l","l">>, <<"p","i","p"," ","i","n","s","t","a","l","l">>, <<"a","p","t"," ","i","n","s","t","a","l","l">>}

\* A rule that tests the tiers from the mildest to the most severe.
_assess_command_risk_mildest_first(params) ==
    LET command_lower == Lower(DictGet(params, K_command))
    IN  IF ~DictHas(params, K_command) THEN TypeError
        ELSE IF ContainsAny(command_lower, medium_risk) THEN "medium"
        ELSE IF ContainsAny(command_lower, high_risk) THEN "high"
        ELSE IF ContainsAny(command_lower, critical_commands) THEN "critical"
        ELSE "low"

_assess_command_risk(params) ==
    LET command_lower == Lower(DictGet(params, K_command))
    IN  IF ~DictHas(params, K_command) THEN TypeError
        ELSE IF ContainsAny(command_lower, critical_commands) THEN "critical"
        ELSE IF ContainsAny(command_lower, high_risk) THEN "high"
        ELSE IF ContainsAny(command_lower, medium_risk) THEN "medium"
        ELSE "low"

_assess_git_commit_risk(params) ==
    LET message == DictGetOr(params, K_message, <<>>)
        risky_patterns == {<<"w","i","p">>, <<"t","e","m","p">>, <<"t","e","s","t">>, <<"d","e","b","u","g">>, <<"h","a","c","k">>, <<"f","i","x"," ","l","a","t","e","r">>,
                           <<"t","o","d","o">>, <<"b","r","o","k","e","n">>, <<"e","x","p","e","r","i","m","e","n","t","a","l">>}
    IN  IF message = <<>> THEN "medium"
        ELSE IF ContainsAny(Lower(message), risky_patterns) THEN "medium"
        ELSE "low"

protected_branches == {<<"m","a","i","n">>, <<"m","a","s","t","e","r">>, <<"p","r","o","d","u","c","t","i","o","n">>, <<"p","r","o","d">>}

_assess_git_push_risk(params) ==
    LET branch == DictGetOr(params, K_branch, <<>>)
    IN  IF Lower(branch) \in protected_branches THEN "high" ELSE "medium"

_assess_git_pull_risk(params) == "low"

_assess_git_branch_risk(params) ==
    LET action == DictGetOr(params, <<"a","c","t","i","o","n">>, <<"l","i","s","t">>)
        branch_name == DictGetOr(params, <<"b","r","a","n","c","h","_","n","a","m","e">>, <<>>)
    IN  IF action = <<"l","i","s","t">> THEN "safe"
        ELSE IF action = <<"c","r","e","a","t","e">> THEN "low"
        ELSE IF action = <<"s","w","i","t","c","h">> THEN "low"
        ELSE IF action = <<"d","e","l","e","t","e">>
        THEN IF Lower(branch_name) \in protected_branches THEN "high" ELSE "medium"
        ELSE "low"

_assess_code_generation_risk(params) ==
    LET filepath == DictGetOr(params, K_filepath, <<>>)
        description == Lower(DictGetOr(params, <<"d","e","s","c","r","i","p","t","i","o","n">>, <<>>))
    IN  IF /\ filepath # <<>>
           /\ ContainsAny(Lower(filepath),
                          {<<"m","a","i","n",".","p","y">>, <<"_","_","i","n","i","t","_","_",".","p","y">>, <<"s","e","t","u","p",".","p","y">>, <<"c","o","n","f","i","g">>})
        THEN "medium"
        ELSE IF ContainsAny(description,
                            {<<"s","y","s","t","e","m">>, <<"o","s",".">>, <<"s","u","b","p","r","o","c","e","s","s">>, <<"e","x","e","c">>, <<"e","v","a","l">>})
        THEN "medium"
        ELSE "low"

_assess_refactor_risk(params) ==
    LET filepath == DictGetOr(params, K_filepath, <<>>)
        refactor_type == DictGetOr(params, <<"r","e","f","a","c","t","o","r","_","t","y","p","e">>, <<>>)
    IN  IF ContainsAny(Lower(filepath), {<<"m","a","i","n",".","p","y">>, <<"_","_","i","n","i","t","_","_",".","p","y">>, <<"s","e","t","u","p",".","p","y">>})
        THEN "high"
        ELSE IF refactor_type = <<"a","u","t","o">> THEN "medium"
        ELSE "low"

\* The operations whose rule is lambda **kwargs: RiskLevel.SAFE.
SafeOperations ==
    {<<"g","i","t","_","s","t","a","t","u","s">>, <<"g","i","t","_","d","i","f","f">>, <<"g","i","t","_","l","o","g">>,
     <<"p","y","t","h","o","n","_","l","i","n","t">>, <<"a","n","a","l","y","z","e","_","c","o","m","p","l","e","x","i","t","y">>, <<"s","e","c","u","r","i","t","y","_","s","c","a","n">>,
     <<"a","n","a","l","y","z","e","_","d","e","p","e","n","d","e","n","c","i","e","s">>, <<"c","o","d","e","_","q","u","a","l","i","t","y">>,
     <<"c","o","d","e","_","t","e","m","p","l","a","t","e">>, <<"c","o","d","e","_","s","n","i","p","p","e","t">>,
     <<"r","e","a","d","_","f","i","l","e">>, <<"l","i","s","t","_","f","i","l","e","s">>, <<"c","r","e","a","t","e","_","f","o","l","d","e","r">>, <<"c","h","e","c","k","_","s","y","n","t","a","x">>}

\* The operations whose rule is lambda **kwargs: RiskLevel.LOW.
LowOperations == {<<"g","i","t","_","a","d","d">>, <<"r","u","n","_","p","y","t","h","o","n">>}

\* self.risk_rules[operation], called with the parameter map unpacked
risk_rules(operation, fs, params) ==
    IF operation = T_delete_file THEN _assess_file_deletion_risk(fs, params)
    ELSE IF operation = T_delete_folder THEN _assess_folder_deletion_risk(fs, params)
    ELSE IF operation = T_write_file THEN _assess_file_write_risk(fs, params)
    ELSE IF operation = T_run_command THEN _assess_command_risk(params)
    ELSE IF operation = T_git_commit THEN _assess_git_commit_risk(params)
    ELSE IF operation = T_git_push THEN _assess_git_push_risk(params)
    ELSE IF operation = T_git_pull THEN _assess_git_pull_risk(params)
    ELSE IF operation = <<"g","i","t","_","b","r","a","n","c","h">> THEN _assess_git_branch_risk(params)
    ELSE IF operation = <<"g","e","n","e","r","a","t","e","_","c","o","d","e">> THEN _assess_code_generation_risk(params)
    ELSE IF operation = <<"r","e","f","a","c","t","o","r","_","c","o","d","e">> THEN _assess_refactor_risk(params)
    ELSE IF operation \in LowOperations THEN "low"
    ELSE "safe"

RuleNames ==
    SafeOperations \cup LowOperations \cup
    {T_delete_file, T_delete_folder, T_write_file, T_run_command, T_git_commit,
     T_git_push, T_git_pull, <<"g","i","t","_","b","r","a","n","c","h">>, <<"g","e","n","e","r","a","t","e","_","c","o","d","e">>, <<"r","e","f","a","c","t","o","r","_","c","o","d","e">>}

\* A parameter named like a positional parameter of the method cannot be
\* passed through **params: the call itself raises TypeError.
ClashesWithSignature(params) ==
    DictHas(params, <<"o","p","e","r","a","t","i","o","n">>) \/ DictHas(params, <<"s","e","l","f">>)

\* SafetyApprovalSystem.assess_risk: the level, or TypeError when the call
\* raises.
assess_risk(operation, fs, params) ==
    IF ClashesWithSignature(params) THEN TypeError
    ELSE IF operation \in RuleNames THEN risk_rules(operation, fs, params)
    ELSE "low"

\* A gate that lets low and medium risk through without approval.
requires_approval_lenient(operation, fs, params) ==
    assess_risk(operation, fs, params) \in {"high", "critical"}

\* SafetyApprovalSystem.requires_approval, where assess_risk returns a level;
\* where assess_risk raises TypeError the call raises it too (RiskRaises).
requires_approval(operation, fs, params) ==
    assess_risk(operation, fs, params) # "safe"

\* The exception leaves assess_risk and requires_approval.
RiskRaises(operation, fs, params) ==
    assess_risk(operation, fs, params) = TypeError

(***************************************************************************)
(* SafetyApprovalSystem: the approval collaborators and request_approval.  *)
(* typed is the line the person enters at the prompt.                      *)
(***************************************************************************)
RiskPhrase == <<"I"," ","U","N","D","E","R","S","T","A","N","D"," ","T","H","E"," ","R","I","S","K","S">>

\* A console prompt that takes 'y' and 'yes' at every level.
_get_console_approval_yes(risk_level, typed) ==
    Lower(Strip(typed)) \in {<<"y">>, <<"y","e","s">>}

\* SafetyApprovalSystem._get_console_approval: input().strip() is compared
\* with the phrase for a critical request, input().strip().lower() with
\* 'y' and 'yes' otherwise.
_get_console_approval(risk_level, typed) ==
    IF risk_level = "critical"
    THEN Strip(typed) = RiskPhrase
    ELSE Lower(Strip(typed)) \in {<<"y">>, <<"y","e","s">>}

\* rich's Prompt.ask(default=""): the entered line without its surrounding
\* whitespace; the default for an empty line is the empty text.
PromptAsk(typed) == Strip(typed)

\* rich's Confirm.ask takes an empty line as the default and otherwise the
\* line, stripped and lower-cased, when it is y or n; any other line is
\* refused and the question is put again.
ConfirmAccepts(typed) ==
    typed = <<>> \/ Lower(Strip(typed)) \in {<<"y">>, <<"n">>}

ConfirmAsk(typed, default) ==
    IF typed = <<>> THEN default ELSE Lower(Strip(typed)) = <<"y">>

\* CLI.ask_approval, called by _get_cli_approval with default left False.
ask_approval(risk_level, typed) ==
    IF risk_level = "critical"
    THEN PromptAsk(typed) = RiskPhrase
    ELSE ConfirmAsk(typed, FALSE)

\* The collaborator returns for this line; the yes/no question of the CLI
\* stays on the screen for a line it refuses.
Answerable(cli, risk_level, typed) ==
    cli /\ risk_level # "critical" => ConfirmAccepts(typed)

\* _create_approval_request(operation, risk_level, **params) cannot bind a
\* parameter map that has a key risk_level: the call raises TypeError.
_create_approval_request_raises(params) == DictHas(params, <<"r","i","s","k","_","l","e","v","e","l">>)

\* One entry of approval_history.
HistoryEntry(operation, params, risk_level, approved) ==
    [operation |-> operation, params |-> params,
     risk_level |-> risk_level, approved |-> approved]

\* SafetyApprovalSystem.request_approval.  raises: the call ends in
\* TypeError; asked: the collaborator was called; approved: the value
\* returned; entries: what the call appends to approval_history.
request_approval(cli, operation, fs, params, typed) ==
    LET risk_level == assess_risk(operation, fs, params)
        Outcome(raises, asked, approved, entries) ==
            [raises |-> raises, asked |-> asked, approved |-> approved,
             risk_level |-> risk_level, entries |-> entries]
    IN  IF risk_level = TypeError THEN Outcome(TRUE, FALSE, FALSE, <<>>)
        ELSE IF risk_level = "safe" THEN Outcome(FALSE, FALSE, TRUE, <<>>)
        ELSE IF _create_approval_request_raises(params)
        THEN Outcome(TRUE, FALSE, FALSE, <<>>)
        ELSE LET approved == IF cli THEN ask_approval(risk_level, typed)
                             ELSE _get_console_approval(risk_level, typed)
             IN  Outcome(FALSE, TRUE, approved,
                         <<HistoryEntry(operation, params, risk_level, approved)>>)

(***************************************************************************)
(* The tools create_agent registers with the agent, and what the file      *)
(* tools and run_command do.                                               *)
(***************************************************************************)
RegisteredTools ==
    {T_read_file, T_write_file, T_list_files, T_create_folder, T_delete_file,
     T_delete_folder, T_run_python, T_run_command, T_check_syntax,
     T_git_status, <<"g","i","t","_","d","i","f","f">>, <<"g","i","t","_","a","d","d">>, T_git_commit, T_git_push,
     T_git_pull, <<"g","i","t","_","l","o","g">>, <<"g","i","t","_","b","r","a","n","c","h">>, <<"p","y","t","h","o","n","_","l","i","n","t">>,
     <<"a","n","a","l","y","z","e","_","c","o","m","p","l","e","x","i","t","y">>, <<"s","e","c","u","r","i","t","y","_","s","c","a","n">>, <<"a","n","a","l","y","z","e","_","d","e","p","e","n","d","e","n","c","i","e","s">>,
     <<"c","o","d","e","_","q","u","a","l","i","t","y">>, <<"g","e","n","e","r","a","t","e","_","c","o","d","e">>, <<"c","o","d","e","_","t","e","m","p","l","a","t","e">>,
     <<"r","e","f","a","c","t","o","r","_","c","o","d","e">>, <<"c","o","d","e","_","s","n","i","p","p","e","t">>}

\* The parameters execute() of a tool cannot be called without.
RequiredParams(tool) ==
    IF tool \in {T_read_file, T_delete_file, T_run_python, T_check_syntax}
    THEN {K_filepath}
    ELSE IF tool = T_write_file THEN {K_filepath, K_content}
    ELSE IF tool \in {T_create_folder, T_delete_folder} THEN {K_folderpath}
    ELSE IF tool = T_run_command THEN {K_command}
    ELSE {}

\* tool_instance.execute called with the parameter map unpacked raises
\* TypeError when a required parameter is missing or a key is named self.
BindingFails(tool, params) ==
    \/ \E k \in RequiredParams(tool) : ~DictHas(params, k)
    \/ DictHas(params, <<"s","e","l","f">>)

\* os.path.dirname: what precedes the last slash.
Dirname(path) ==
    LET slashes == {i \in 1..Len(path) : path[i] = "/"}
    IN  IF slashes = {} THEN <<>> ELSE Slice(path, 1, Max(slashes) - 1)

\* The directory whose listing holds path: the working directory for a bare
\* name.
Parent(path) == IF Dirname(path) = <<>> THEN <<".">> ELSE Dirname(path)

\* The entry count of the listed parent follows a creation or a removal.
Relist(fs, path, delta) ==
    IF Exists(fs, Parent(path)) /\ fs[Parent(path)].kind = "dir"
    THEN [fs EXCEPT ![Parent(path)].items = @ + delta]
    ELSE fs

\* What a tool call leaves: the text reports success or failure (ok), and
\* the file system after the call.
Returned(ok, fs) == [raised |-> FALSE, ok |-> ok, fs |-> fs]

Raised(fs) == [raised |-> TRUE, ok |-> FALSE, fs |-> fs]

\* ReadFileTool.execute
ReadFile(fs, filepath) ==
    IF ~Exists(fs, filepath) THEN Returned(FALSE, fs)
    ELSE IF fs[filepath].kind # "file" THEN Returned(FALSE, fs)
    ELSE IF fs[filepath].size > MegaByte THEN Returned(FALSE, fs)
    ELSE Returned(TRUE, fs)

\* The directories above path.
Ancestors(path) ==
    {Slice(path, 1, i - 1) : i \in {k \in 2..Len(path) : path[k] = "/"}}

\* A file stands where a directory above path is needed.
FileAbove(fs, path) ==
    \E a \in Ancestors(path) : Exists(fs, a) /\ fs[a].kind = "file"

RECURSIVE MakeDirs(_, _)
\* os.makedirs: the directory and the missing directories above it.
MakeDirs(fs, path) ==
    IF Exists(fs, path) THEN fs
    ELSE LET above == IF Dirname(path) = <<>> THEN fs
                      ELSE MakeDirs(fs, Dirname(path))
         IN  Relist(FsPut(above, path, Dir(0)), path, 1)

\* WriteFileTool.execute: the directory is made when it is missing, the file
\* is created or overwritten with the content.
WriteFile(fs, filepath, content) ==
    LET directory == Dirname(filepath)
        made == IF directory # <<>> THEN MakeDirs(fs, directory) ELSE fs
    IN  IF FileAbove(fs, filepath) THEN Returned(FALSE, fs)
        ELSE IF Exists(made, filepath) /\ made[filepath].kind = "dir"
        THEN Returned(FALSE, made)
        ELSE IF Exists(made, filepath)
        THEN Returned(TRUE, FsPut(made, filepath, File(Len(content))))
        ELSE Returned(TRUE, Relist(FsPut(made, filepath, File(Len(content))),
                                   filepath, 1))

\* ListFilesTool.execute
ListFiles(fs, directory) ==
    Returned(Exists(fs, directory) /\ fs[directory].kind = "dir", fs)

\* CreateFolderTool.execute
CreateFolder(fs, folderpath) ==
    IF Exists(fs, folderpath) \/ FileAbove(fs, folderpath)
    THEN Returned(FALSE, fs)
    ELSE Returned(TRUE, MakeDirs(fs, folderpath))

\* DeleteFileTool.execute
DeleteFile(fs, filepath) ==
    IF ~Exists(fs, filepath) THEN Returned(FALSE, fs)
    ELSE IF fs[filepath].kind # "file" THEN Returned(FALSE, fs)
    ELSE Returned(TRUE, Relist(FsRemove(fs, filepath), filepath, -1))

\* path lies below folder.
Below(folder, path) ==
    /\ Len(path) > Len(folder) + 1
    /\ StartsWith(path, folder \o <<"/">>)

\* DeleteFolderTool.execute: shutil.rmtree removes the folder and what is
\* below it.
DeleteFolder(fs, folderpath) ==
    IF ~Exists(fs, folderpath) THEN Returned(FALSE, fs)
    ELSE IF fs[folderpath].kind # "dir" THEN Returned(FALSE, fs)
    ELSE LET gone == {folderpath} \cup {p \in DOMAIN fs : Below(folderpath, p)}
             left == [p \in DOMAIN fs \ gone |-> fs[p]]
         IN  Returned(TRUE, Relist(left, folderpath, -1))

\* RunCommandTool.execute: the commands it refuses to start.
dangerous_commands ==
    {<<"r","m"," ","-","r","f">>, <<"d","e","l"," ","/","f">>, <<"f","o","r","m","a","t">>, <<"f","d","i","s","k">>, <<"m","k","f","s">>, <<"s","h","u","t","d","o","w","n">>,
     <<"r","e","b","o","o","t">>, <<"h","a","l","t">>, <<"p","o","w","e","r","o","f","f">>, <<"d","d"," ","i","f","=">>, <<"c","h","m","o","d"," ","7","7","7">>,
     <<"c","h","o","w","n"," ","r","o","o","t">>}

\* RunCommandTool.execute: a refused command returns a failure; a started
\* command ends with exit code zero or not.  The files a started command
\* touches are outside the model.
RunCommand(fs, command) ==
    IF ContainsAny(Lower(command), dangerous_commands)
    THEN {Returned(FALSE, fs)}
    ELSE {Returned(TRUE, fs), Returned(FALSE, fs)}

\* self.tools[tool_name] called with the parameter map unpacked: the set of
\* the ways the call can end.  A tool that runs a subprocess of its own
\* (python, git, the analysers) reports success or failure.
ToolCall(tool, fs, params) ==
    IF BindingFails(tool, params) THEN {Raised(fs)}
    ELSE IF tool = T_read_file THEN {ReadFile(fs, DictGet(params, K_filepath))}
    ELSE IF tool = T_write_file
    THEN {WriteFile(fs, DictGet(params, K_filepath), DictGet(params, K_content))}
    ELSE IF tool = T_list_files
    THEN {ListFiles(fs, DictGetOr(params, K_directory, <<".">>))}
    ELSE IF tool = T_create_folder
    THEN {CreateFolder(fs, DictGet(params, K_folderpath))}
    ELSE IF tool = T_delete_file
    THEN {DeleteFile(fs, DictGet(params, K_filepath))}
    ELSE IF tool = T_delete_folder
    THEN {DeleteFolder(fs, DictGet(params, K_folderpath))}
    ELSE IF tool = T_run_command
    THEN RunCommand(fs, DictGet(params, K_command))
    ELSE {Returned(TRUE, fs), Returned(FALSE, fs)}

(***************************************************************************)
(* The state.                                                              *)
(***************************************************************************)
VARIABLES
    program,            \* which entry point runs: "CodingAgent" or "Agent"
    cli,                \* SafetyApprovalSystem.cli is set (a CLI was passed)
    pc,                 \* where the current call stands
    turns,              \* the calls accepted so far
    fs,                 \* the file system
    user_input,         \* the request of the current turn
    llm_response,       \* the text the model returned in the current turn
    plan,               \* the plan _reason returned
    trace,              \* what the current call has done to the gate and the tools
    result,             \* the text the current call returns
    approval_history,   \* SafetyApprovalSystem.approval_history
    calls,              \* the calls made so far to the gate or the client
    session_memory,     \* AgentMemory.session_memory
    successful_patterns, \* AgentMemory.persistent_memory["successful_patterns"]
    context,            \* CodingAgent.context
    memory_file,        \* the patterns last written to AgentMemory.memory_file
    mock_mode,          \* the mock flag of the language model client
    conversation_history, \* ConversationMemory.conversation_history
    recent_files,       \* ConversationMemory.recent_files
    conversation_turns  \* the turns handed to EnhancedMemory

vars == <<program, cli, pc, turns, fs, user_input, llm_response, plan, trace,
          result, approval_history, calls, session_memory, successful_patterns,
          context, memory_file, mock_mode, conversation_history, recent_files, conversation_turns>>

legacy_vars == <<conversation_history, recent_files, conversation_turns>>

agent_vars == <<session_memory, successful_patterns, context, memory_file,
                mock_mode>>

\* The turns one behaviour of the model accepts.
MaxTurns == 2

(***************************************************************************)
(* The texts a call returns.  ok is false for a text that starts with the  *)
(* cross mark, which is how _learn and add_interaction tell a failure.     *)
(***************************************************************************)
NoResult == [kind |-> "none", tool |-> <<>>, ok |-> FALSE, text |-> <<>>]

\* "Operation cancelled by user: <tool>", after the cross mark
Cancelled(tool) == [kind |-> "cancelled", tool |-> tool, ok |-> FALSE, text |-> <<>>]

\* "Unknown tool: <tool>", after the cross mark
UnknownTool(tool) == [kind |-> "unknown_tool", tool |-> tool, ok |-> FALSE, text |-> <<>>]

\* "Tool execution failed: <exception>", after the cross mark
ExecutionFailed(tool) == [kind |-> "failed", tool |-> tool, ok |-> FALSE, text |-> <<>>]

\* str() of the ToolResult the tool returned
ToolReturned(tool, ok) == [kind |-> "tool", tool |-> tool, ok |-> ok, text |-> <<>>]

\* the response of a conversation plan; the texts of the model are ASCII and
\* do not start with the cross mark
Said(text) == [kind |-> "conversation", tool |-> <<>>, ok |-> TRUE, text |-> text]

(***************************************************************************)
(* What the trace records.                                                 *)
(***************************************************************************)
\* assess_risk(tool, params) returned level, or raised TypeError
Assessed(tool, params, level) ==
    [ev |-> "assess_risk", tool |-> tool, params |-> params, value |-> level]

\* the approval collaborator was called and answered
Asked(tool, params, approved) ==
    [ev |-> "ask", tool |-> tool, params |-> params,
     value |-> IF approved THEN "approved" ELSE "denied"]

\* the registered function of the tool was called
Called(tool, params) ==
    [ev |-> "call", tool |-> tool, params |-> params, value |-> "called"]

EventsOf(tr, ev) == SelectSeq(tr, LAMBDA e : e.ev = ev)

(***************************************************************************)
(* The requests of the model: what the user asks and what the language     *)
(* model answers.                                                          *)
(***************************************************************************)
Requests ==
    << [user_input |-> <<"r","e","a","d"," ","m","a","i","n",".","p","y">>,
        text |-> <<"r","e","a","d","_","f","i","l","e","(","f","i","l","e","p","a","t","h","=","\"","m","a","i","n",".","p","y","\"",")">>],
       [user_input |-> <<"d","e","l","e","t","e"," ","m","a","i","n",".","p","y">>,
        text |-> <<"d","e","l","e","t","e","_","f","i","l","e","(","f","i","l","e","p","a","t","h","=","\"","m","a","i","n",".","p","y","\"",")">>],
       [user_input |-> <<"c","l","e","a","n"," ","u","p">>,
        text |-> <<"r","u","n","_","c","o","m","m","a","n","d","(","c","o","m","m","a","n","d","=","\"","r","m"," ","-","r","f"," ","/","d","a","t","a","\"",")">>],
       [user_input |-> <<"u","p","d","a","t","e"," ","n","o","t","e","s">>,
        text |-> <<"w","r","i","t","e","_","f","i","l","e","(","f","i","l","e","p","a","t","h","=","\"","n","o","t","e","s",".","t","x","t","\"",","," ","c","o","n","t","e","n","t","=","\"","\"","\"","h","i","\"","\"","\"",")">>],
       [user_input |-> <<"h","e","l","l","o">>,
        text |-> <<"H","e","l","l","o","!"," ","I"," ","c","a","n"," ","h","e","l","p"," ","w","i","t","h"," ","t","h","a","t","."," ">>],
       [user_input |-> <<"c","a","l","l"," ","f","o","o">>,
        text |-> <<"f","o","o","(","x","=","\"","1","\"",")">>],
       [user_input |-> <<"d","e","l","e","t","e"," ","t","h","a","t">>,
        text |-> <<"d","e","l","e","t","e","_","f","i","l","e","(",")">>],
       [user_input |-> <<"r","e","a","d"," ","t","h","e","n"," ","d","e","l","e","t","e">>,
        text |-> <<"r","e","a","d","_","f","i","l","e","(","f","i","l","e","p","a","t","h","=","\"","m","a","i","n",".","p","y","\"",")","\n","d","e","l","e","t","e","_","f","i","l","e","(","f","i","l","e","p","a","t","h","=","\"","m","a","i","n",".","p","y","\"",")">>],
       [user_input |-> <<"w","h","a","t"," ","i","s"," ","h","e","r","e">>,
        text |-> <<"I"," ","w","i","l","l"," ","c","a","l","l"," ","l","i","s","t","_","f","i","l","e","s","(","d","i","r","e","c","t","o","r","y","=","\"",".","\"",")"," ","a","n","d"," ","t","h","e","n"," ","d","e","l","e","t","e","_","f","o","l","d","e","r","(","f","o","l","d","e","r","p","a","t","h","=","\"",".","g","i","t","\"",")"," ","f","o","r"," ","y","o","u",".">>],
       [user_input |-> <<"c","r","e","a","t","e"," ","a"," ","f","i","l","e"," ","n","a","m","e","d"," ","a","p","p",".","p","y">>,
        text |-> <<"S","u","r","e",","," ","I"," ","w","i","l","l"," ","c","r","e","a","t","e"," ","t","h","a","t"," ","f","i","l","e",".">>],
       [user_input |-> <<"o","v","e","r","w","r","i","t","e"," ","m","a","i","n">>,
        text |-> <<"w","r","i","t","e","_","f","i","l","e","(","f","i","l","e","p","a","t","h","=","\"","m","a","i","n",".","p","y","\"",","," ","c","o","n","t","e","n","t","=","\"","x","\"",","," ","r","i","s","k","_","l","e","v","e","l","=","\"","l","o","w","\"",")">>],
       [user_input |-> <<"d","r","o","p"," ","t","h","e"," ","r","e","p","o"," ","d","a","t","a">>,
        text |-> <<"d","e","l","e","t","e","_","f","o","l","d","e","r","(","f","o","l","d","e","r","p","a","t","h","=","\"",".","g","i","t","\"",")">>],
       [user_input |-> <<"o","p","e","n"," ","i","t">>,
        text |-> <<"r","e","a","d","_","f","i","l","e","(",")">>],
       [user_input |-> <<"d","e","l","e","t","e"," ","m","a","i","n",".","p","y">>,
        text |-> <<"S","u","r","e",","," ","I"," ","w","i","l","l"," ","d","e","l","e","t","e"," ","i","t",".">>],
       [user_input |-> <<"r","e","m","o","v","e"," ","t","h","e"," ","n","o","t","e","s">>,
        text |-> <<"r","u","n","_","c","o","m","m","a","n","d","(","c","o","m","m","a","n","d","=","\"","s","u","d","o"," ","r","m"," ","n","o","t","e","s",".","t","x","t","\"",")">>] >>

\* The lines a person types at an approval prompt.
Answers ==
    {<<"y">>, <<"y","e","s">>, <<"n">>, <<>>, RiskPhrase, <<" ","I"," ","U","N","D","E","R","S","T","A","N","D"," ","T","H","E"," ","R","I","S","K","S"," ">>}

\* The working directory the agent starts in.
InitialFs ==
    (<<".">> :> Dir(2)) @@ (<<"m","a","i","n",".","p","y">> :> File(120)) @@ (<<".","g","i","t">> :> Dir(12))

(***************************************************************************)
(* CodingAgent.process_request: Perceive and Reason, Act, the approval     *)
(* prompt, Learn.                                                          *)
(***************************************************************************)
SessionCap == 50

SessionKeep == 30

\* An add_interaction that cuts a list longer than SessionCap to its first
\* SessionKeep entries.
add_interaction_keep_oldest(memory, input, res) ==
    LET appended == Append(memory, [user_input |-> input, result |-> res,
                                    success |-> res.ok])
    IN  IF Len(appended) > SessionCap
        THEN SubSeq(appended, 1, SessionKeep)
        ELSE appended

\* AgentMemory.add_interaction: the interaction is appended and a list
\* longer than SessionCap is cut to its last SessionKeep entries.
add_interaction(memory, input, res) ==
    LET appended == Append(memory, [user_input |-> input, result |-> res,
                                    success |-> res.ok])
    IN  IF Len(appended) > SessionCap
        THEN SubSeq(appended, Len(appended) - SessionKeep + 1, Len(appended))
        ELSE appended

PatternCap == 100

PatternKeep == 50

\* AgentMemory._learn_from_success: the pattern of a successful interaction
\* is appended and a list longer than PatternCap is cut to its last
\* PatternKeep entries.  tool_used is read off the text of the result, which
\* the pattern holds here.
_learn_from_success(patterns, input, res) ==
    LET appended == Append(patterns, [input_pattern |-> Lower(input),
                                      result |-> res])
    IN  IF Len(appended) > PatternCap
        THEN SubSeq(appended, Len(appended) - PatternKeep + 1, Len(appended))
        ELSE appended

\* if len(self.session_memory) % 10 == 0: self._save_persistent_memory()
SaveEvery == 10

\* AgentMemory._save_persistent_memory after a successful interaction: on
\* every SaveEvery-th length of the session memory the patterns are written
\* to the file; a write that raises is caught and leaves the file as it was.
_save_persistent_memory(file, memory, patterns, save_fails) ==
    IF Len(memory) % SaveEvery = 0 /\ ~save_fails THEN patterns ELSE file

\* A caller that goes on to the tool whatever request_approval returned.
ToolMayRunAnyway(approved) == TRUE

\* if not approved: return the cancellation
ToolMayRun(approved) == approved

\* _perceive and _reason: the model is asked once and its text is parsed
\* into the plan of the turn.
Reason(r) ==
    /\ program = "CodingAgent"
    /\ pc = "idle"
    /\ turns < MaxTurns
    /\ turns' = turns + 1
    /\ user_input' = Requests[r].user_input
    /\ llm_response' = Requests[r].text
    /\ plan' = _parse_llm_response(Requests[r].text, Requests[r].user_input,
                                   RegisteredTools)
    /\ trace' = <<>>
    /\ result' = NoResult
    /\ pc' = "act"
    /\ UNCHANGED <<program, cli, fs, approval_history, calls, agent_vars,
                   legacy_vars>>

\* A call that runs the registered function a second time on what the
\* first call left.
InvokeToolTwice(before) ==
    \E o1 \in ToolCall(plan.tool, fs, plan.params) :
        \E o \in ToolCall(plan.tool, o1.fs, plan.params) :
            /\ trace' = before \o <<Called(plan.tool, plan.params),
                                    Called(plan.tool, plan.params)>>
            /\ fs' = o.fs
            /\ result' = IF o.raised THEN ExecutionFailed(plan.tool)
                         ELSE ToolReturned(plan.tool, o.ok)
            /\ pc' = "learn"

\* A call that lets the exception of the tool through: process_request
\* returns its own error text and the turn does not reach _learn.
InvokeToolUncaught(before) ==
    \E o \in ToolCall(plan.tool, fs, plan.params) :
        /\ trace' = Append(before, Called(plan.tool, plan.params))
        /\ fs' = o.fs
        /\ result' = IF o.raised
                     THEN [ExecutionFailed(plan.tool) EXCEPT !.kind = "agent_error"]
                     ELSE ToolReturned(plan.tool, o.ok)
        /\ pc' = IF o.raised THEN "idle" ELSE "learn"

\* tool_func called with the parameter map unpacked, and the text
\* _execute_tool_plan returns after it; before is the trace up to the call.
InvokeTool(before) ==
    \E o \in ToolCall(plan.tool, fs, plan.params) :
        /\ trace' = Append(before, Called(plan.tool, plan.params))
        /\ fs' = o.fs
        /\ result' = IF o.raised THEN ExecutionFailed(plan.tool)
                     ELSE ToolReturned(plan.tool, o.ok)
        /\ pc' = "learn"

\* The call ends without the tool with the text res.
EndWithout(before, res) ==
    /\ trace' = before
    /\ result' = res
    /\ fs' = fs
    /\ pc' = "learn"

\* _act: a conversation plan returns its response; _execute_tool_plan
\* refuses an unknown tool, asks requires_approval, and either calls the
\* tool or enters request_approval, which stops at the prompt of the
\* collaborator.
Act ==
    /\ program = "CodingAgent"
    /\ pc = "act"
    /\ IF plan.type = "conversation"
       THEN EndWithout(trace, Said(plan.response))
       ELSE IF plan.tool \notin RegisteredTools
       THEN EndWithout(trace, UnknownTool(plan.tool))
       ELSE LET level == assess_risk(plan.tool, fs, plan.params)
                first == Append(trace, Assessed(plan.tool, plan.params, level))
                again == Append(first, Assessed(plan.tool, plan.params, level))
            IN  IF RiskRaises(plan.tool, fs, plan.params)
                THEN EndWithout(first, ExecutionFailed(plan.tool))
                ELSE IF ~requires_approval(plan.tool, fs, plan.params)
                THEN InvokeTool(first)
                ELSE IF _create_approval_request_raises(plan.params)
                THEN EndWithout(again, ExecutionFailed(plan.tool))
                ELSE /\ trace' = again
                     /\ pc' = "approval"
                     /\ UNCHANGED <<fs, result>>
    /\ UNCHANGED <<program, cli, turns, user_input, llm_response, plan,
                   approval_history, calls, agent_vars, legacy_vars>>

\* The person answers the prompt: request_approval records the decision and
\* returns it, and _execute_tool_plan cancels or calls the tool.
Approve(typed) ==
    /\ program = "CodingAgent"
    /\ pc = "approval"
    /\ LET r == request_approval(cli, plan.tool, fs, plan.params, typed)
           asked == Append(trace, Asked(plan.tool, plan.params, r.approved))
       IN  /\ Answerable(cli, r.risk_level, typed)
           /\ approval_history' = approval_history \o r.entries
           /\ IF ToolMayRun(r.approved)
              THEN InvokeTool(asked)
              ELSE EndWithout(asked, Cancelled(plan.tool))
    /\ UNCHANGED <<program, cli, turns, user_input, llm_response, plan,
                   calls, agent_vars, legacy_vars>>

\* _learn: the interaction goes to the memory and becomes last_action of
\* the session context; process_request returns the result.  save_fails
\* says whether a write of the memory file would raise.
Learn(save_fails) ==
    /\ program = "CodingAgent"
    /\ pc = "learn"
    /\ session_memory' = add_interaction(session_memory, user_input, result)
    /\ successful_patterns' =
           IF result.ok
           THEN _learn_from_success(successful_patterns, user_input, result)
           ELSE successful_patterns
    /\ memory_file' =
           IF result.ok
           THEN _save_persistent_memory(memory_file, session_memory',
                                        successful_patterns', save_fails)
           ELSE memory_file
    /\ context' = DictSet(context, <<"l","a","s","t","_","a","c","t","i","o","n">>,
                          [input |-> user_input, result |-> result,
                           success |-> result.ok])
    /\ pc' = "idle"
    /\ UNCHANGED <<program, cli, turns, fs, user_input, llm_response, plan,
                   trace, result, approval_history, calls, mock_mode,
                   legacy_vars>>

(***************************************************************************)
(* SafetyApprovalSystem on its own: its three public methods called in any *)
(* order, as the tests of the repository call them.                        *)
(***************************************************************************)
\* The calls one behaviour of the gate model accepts.
MaxCalls == 2

\* The (operation, parameter map) pairs the gate is called with.
GateCalls ==
    << [operation |-> T_read_file,
        params |-> <<[k |-> K_filepath, v |-> <<"m","a","i","n",".","p","y">>]>>],
       [operation |-> T_delete_file,
        params |-> <<[k |-> K_filepath, v |-> <<"m","a","i","n",".","p","y">>]>>],
       [operation |-> T_delete_file, params |-> <<>>],
       [operation |-> T_run_command,
        params |-> <<[k |-> K_command, v |-> <<"r","m"," ","-","r","f"," ","/","d","a","t","a">>]>>],
       [operation |-> T_write_file,
        params |-> <<[k |-> K_filepath, v |-> <<"n","o","t","e","s",".","t","x","t">>],
                     [k |-> K_content, v |-> <<"h","i">>]>>],
       [operation |-> T_write_file,
        params |-> <<[k |-> K_filepath, v |-> <<"m","a","i","n",".","p","y">>],
                     [k |-> <<"r","i","s","k","_","l","e","v","e","l">>, v |-> <<"l","o","w">>]>>],
       [operation |-> <<"f","o","o">>,
        params |-> <<[k |-> <<"x">>, v |-> <<"1">>]>>] >>

\* What the person types when the collaborator asks.
GateAnswers == {<<"y","e","s">>, <<"n">>, RiskPhrase, <<" ","I"," ","U","N","D","E","R","S","T","A","N","D"," ","T","H","E"," ","R","I","S","K","S"," ">>}

\* The file systems the gate looks at.
GateFileSystems ==
    {InitialFs, InitialFs @@ (<<"n","o","t","e","s",".","t","x","t">> :> File(2))}

\* One call of a method of the gate, as the model remembers it.
GateCall(method, c, typed, level, raises, asked, returned) ==
    [method |-> method, operation |-> c.operation, params |-> c.params,
     typed |-> typed, risk_level |-> level, raises |-> raises,
     asked |-> asked, returned |-> returned]

\* safety.assess_risk called with the parameter map unpacked
AssessRisk(c) ==
    /\ program = "SafetyApprovalSystem"
    /\ Len(calls) < MaxCalls
    /\ LET level == assess_risk(c.operation, fs, c.params)
       IN  /\ calls' = Append(calls, GateCall("assess_risk", c, <<>>, level,
                                              level = TypeError, FALSE, FALSE))
           /\ trace' = <<Assessed(c.operation, c.params, level)>>
    /\ UNCHANGED <<program, cli, pc, turns, fs, user_input, llm_response,
                   plan, result, approval_history, agent_vars, legacy_vars>>

\* safety.requires_approval called with the parameter map unpacked
RequiresApproval(c) ==
    /\ program = "SafetyApprovalSystem"
    /\ Len(calls) < MaxCalls
    /\ LET level == assess_risk(c.operation, fs, c.params)
           raises == RiskRaises(c.operation, fs, c.params)
       IN  /\ calls' = Append(calls,
                  GateCall("requires_approval", c, <<>>, level, raises, FALSE,
                           ~raises /\ requires_approval(c.operation, fs, c.params)))
           /\ trace' = <<Assessed(c.operation, c.params, level)>>
    /\ UNCHANGED <<program, cli, pc, turns, fs, user_input, llm_response,
                   plan, result, approval_history, agent_vars, legacy_vars>>

\* safety.request_approval called with the parameter map unpacked; the
\* person types the line typed when the collaborator asks.
RequestApproval(c, typed) ==
    /\ program = "SafetyApprovalSystem"
    /\ Len(calls) < MaxCalls
    /\ LET r == request_approval(cli, c.operation, fs, c.params, typed)
       IN  /\ Answerable(cli, r.risk_level, typed)
           /\ typed \in (IF r.asked THEN GateAnswers ELSE {<<>>})
           /\ approval_history' = approval_history \o r.entries
           /\ calls' = Append(calls,
                  GateCall("request_approval", c, typed, r.risk_level,
                           r.raises, r.asked, r.approved))
           /\ trace' = <<Assessed(c.operation, c.params, r.risk_level)>> \o
                       (IF r.asked
                        THEN <<Asked(c.operation, c.params, r.approved)>>
                        ELSE <<>>)
    /\ UNCHANGED <<program, cli, pc, turns, fs, user_input, llm_response,
                   plan, result, agent_vars, legacy_vars>>

(***************************************************************************)
(* The risk rules on their own: assess_risk and requires_approval called   *)
(* with folders of every size class, commands of every tier and pushes and *)
(* pulls of every kind of branch.                                          *)
(***************************************************************************)
\* The directory the rules look at: folders with 0, 1, 10, 11, 50 and 51
\* entries, a repository directory, and a folder whose name holds the name
\* of a critical directory.
RiskFs ==
    (<<".">> :> Dir(9)) @@ (<<"m","a","i","n",".","p","y">> :> File(120)) @@ (<<".","g","i","t">> :> Dir(12)) @@
    (<<"e","m","p","t","y">> :> Dir(0)) @@ (<<"o","n","e">> :> Dir(1)) @@ (<<"t","e","n">> :> Dir(10)) @@
    (<<"e","l","e","v","e","n">> :> Dir(11)) @@ (<<"f","i","f","t","y">> :> Dir(50)) @@
    (<<"f","i","f","t","y","o","n","e">> :> Dir(51)) @@ (<<"c","a","b","i","n","e","t">> :> Dir(3))

FolderCalls ==
    {[operation |-> T_delete_folder, params |-> <<[k |-> K_folderpath, v |-> p]>>] :
        p \in {<<"b","u","i","l","d">>, <<".","g","i","t">>, <<"e","m","p","t","y">>, <<"o","n","e">>, <<"t","e","n">>, <<"e","l","e","v","e","n">>,
               <<"f","i","f","t","y">>, <<"f","i","f","t","y","o","n","e">>, <<"c","a","b","i","n","e","t">>, <<"m","a","i","n",".","p","y">>}}

CommandCalls ==
    {[operation |-> T_run_command, params |-> <<[k |-> K_command, v |-> c]>>] :
        c \in {<<"s","u","d","o"," ","a","p","t"," ","i","n","s","t","a","l","l"," ","x">>, <<"c","h","m","o","d"," ","7","7","7"," ","x">>, <<"l","s"," ","-","l","a">>,
               <<"p","i","p"," ","i","n","s","t","a","l","l"," ","x">>, <<"r","m"," ","n","o","t","e","s",".","t","x","t">>, <<"C","U","R","L"," ","x"," ","|"," ","s","h">>}}
    \cup {[operation |-> T_run_command, params |-> <<>>]}

GitCalls ==
    {[operation |-> op, params |-> <<[k |-> K_branch, v |-> b]>>] :
        op \in {T_git_push, T_git_pull},
        b \in {<<"m","a","i","n">>, <<"M","a","s","t","e","r">>, <<"p","r","o","d","u","c","t","i","o","n">>, <<"p","r","o","d">>, <<"f","e","a","t","u","r","e">>}}
    \cup {[operation |-> op, params |-> <<>>] : op \in {T_git_push, T_git_pull}}
    \cup {[operation |-> T_git_push,
           params |-> <<[k |-> K_remote, v |-> <<"u","p","s","t","r","e","a","m">>],
                        [k |-> K_branch, v |-> <<"f","e","a","t","u","r","e">>]>>]}

\* The (operation, parameter map) pairs the rules are called with.
RiskCalls == FolderCalls \cup CommandCalls \cup GitCalls

(***************************************************************************)
(* The plan parser on its own: one text of the model and one user input,   *)
(* parsed once.                                                            *)
(***************************************************************************)
ParseHeads == {<<>>, <<"I"," ","w","i","l","l"," ","c","a","l","l"," ">>, <<" "," ">>}

ParseNames == {T_read_file, T_delete_file, <<"f","o","o">>, <<>>}

ParseArgs ==
    {<<"(","f","i","l","e","p","a","t","h","=","\"","m","a","i","n",".","p","y","\"",")">>, <<"(","x","=","\"","1","\"",")">>, <<"(",")">>, <<>>,
     <<"(","f","i","l","e","p","a","t","h","=","\"","a","\"",","," ","f","i","l","e","_","p","a","t","h","=","\"","b","\"",")">>, <<"(","f","i","l","e","_","p","a","t","h","=","\"","b","\"",","," ","f","i","l","e","p","a","t","h","=","\"","a","\"",")">>,
     <<"(","k","=","a",","," ","k","=","b",")">>, <<"(","k","=","'","a","'",","," ","k","=","\"","b","\"",")">>}

ParseTails == {<<>>, <<" ","n","o","w",".">>, <<"\n">>}

\* The texts of the model the parser is given.
ParseTexts ==
    {h \o n \o a \o t : h \in ParseHeads, n \in ParseNames,
                        a \in ParseArgs, t \in ParseTails}

\* The user inputs the parser is given.
ParseInputs ==
    {<<"r","e","a","d"," ","m","a","i","n",".","p","y">>, <<"c","r","e","a","t","e"," ","a"," ","f","i","l","e"," ","n","a","m","e","d"," ","a","p","p",".","p","y">>, <<"m","a","k","e"," ","a"," ","f","o","l","d","e","r"," ","c","a","l","l","e","d"," ","b","u","i","l","d">>,
     <<"c","r","e","a","t","e"," ","a"," ","f","o","l","d","e","r"," ","r","e","p","o","r","t",".","t","x","t">>}

\* plan = self._parse_llm_response(llm_response, user_input)
ParseResponse ==
    /\ program = "parser"
    /\ pc = "reason"
    /\ plan' = _parse_llm_response(llm_response, user_input, RegisteredTools)
    /\ pc' = "act"
    /\ UNCHANGED <<program, cli, turns, fs, user_input, llm_response, trace,
                   result, approval_history, calls, agent_vars, legacy_vars>>

(***************************************************************************)
(* The legacy Agent of src/agent: execute_command, the simple path and the *)
(* ReAct loop.                                                             *)
(***************************************************************************)
\* What an instance of ToolRegistry of src/tools has: the dict tools and the
\* methods register, execute and list_tools.
ToolRegistryAttributes == {"tools", "register", "execute", "list_tools"}

\* The names Agent.__init__ registers in its ToolRegistry.
LegacyTools ==
    {<<"r","e","a","d","_","f","i","l","e">>, <<"w","r","i","t","e","_","f","i","l","e">>, <<"s","e","a","r","c","h","_","c","o","d","e","b","a","s","e">>, <<"g","e","t","_","s","t","r","u","c","t","u","r","e">>,
     <<"d","e","l","e","t","e","_","f","i","l","e">>, <<"c","r","e","a","t","e","_","d","i","r","e","c","t","o","r","y">>, <<"d","e","l","e","t","e","_","d","i","r","e","c","t","o","r","y">>,
     <<"f","i","n","d","_","f","i","l","e","s">>, <<"g","e","t","_","f","i","l","e","_","i","n","f","o">>, <<"v","a","l","i","d","a","t","e","_","s","y","n","t","a","x">>, <<"r","u","n","_","l","i","n","t","e","r">>,
     <<"f","i","n","d","_","r","e","f","e","r","e","n","c","e","s">>, <<"a","n","a","l","y","z","e","_","c","o","m","p","l","e","x","i","t","y">>, <<"c","o","d","e","_","q","u","a","l","i","t","y","_","r","e","p","o","r","t">>,
     <<"r","u","n","_","p","y","t","h","o","n">>, <<"r","u","n","_","t","e","s","t","s">>, <<"r","u","n","_","c","o","m","m","a","n","d">>, <<"i","n","s","t","a","l","l","_","p","a","c","k","a","g","e">>,
     <<"c","h","e","c","k","_","e","n","v","i","r","o","n","m","e","n","t">>, <<"c","o","m","p","r","e","h","e","n","s","i","v","e","_","a","n","a","l","y","s","i","s">>}

\* What an instance of ConversationMemory has.
ConversationMemoryAttributes ==
    {"max_interactions", "max_files", "conversation_history", "recent_files",
     "file_contexts", "add_interaction", "get_recent_files", "get_last_file",
     "get_conversation_context", "find_file_by_reference",
     "is_modification_request", "clear_memory", "get_memory_stats"}

\* Reading the attribute name of an object that has the attributes attrs
\* raises AttributeError.
AttributeError(attrs, name) == name \notin attrs

\* any(s.startswith(p) for p in prefixes)
StartsWithAny(s, prefixes) == \E p \in prefixes : StartsWith(s, p)

\* Agent._needs_complex_reasoning
_needs_complex_reasoning(query) ==
    LET simple_indicators ==
            \/ StartsWithAny(Strip(query), {<<"r","e","a","d","_","f","i","l","e">>, <<"w","r","i","t","e","_","f","i","l","e">>,
                                            <<"c","r","e","a","t","e","_","d","i","r","e","c","t","o","r","y">>, <<"g","e","t","_","s","t","r","u","c","t","u","r","e">>})
            \/ Lower(query) \in {<<"d","e","b","u","g">>, <<"c","l","e","a","r"," ","m","e","m","o","r","y">>, <<"m","e","m","o","r","y"," ","s","t","a","t","s">>}
            \/ /\ Len(Words(query)) <= 3
               /\ ContainsAny(Lower(query), {<<"r","e","a","d">>, <<"w","r","i","t","e">>, <<"c","r","e","a","t","e">>,
                                             <<"r","u","n">>, <<"s","h","o","w">>})
        complex_indicators ==
            {<<"h","e","l","p"," ","m","e">>, <<"a","n","a","l","y","z","e">>, <<"s","u","g","g","e","s","t">>, <<"i","m","p","r","o","v","e">>,
             <<"c","r","e","a","t","e"," ","a"," ","p","r","o","j","e","c","t">>, <<"b","u","i","l","d"," ","a","n"," ","a","p","p","l","i","c","a","t","i","o","n">>, <<"i","m","p","l","e","m","e","n","t">>,
             <<"r","e","f","a","c","t","o","r">>, <<"o","p","t","i","m","i","z","e">>, <<"f","i","n","d"," ","a","n","d"," ","f","i","x">>, <<"r","e","v","i","e","w">>,
             <<"e","x","p","l","a","i","n"," ","h","o","w">>, <<"w","h","a","t"," ","d","o","e","s">>, <<"h","o","w"," ","t","o">>}
    IN  IF simple_indicators THEN FALSE
        ELSE ContainsAny(Lower(query), complex_indicators)

\* PromptManager._classify_task
_classify_task(user_query) ==
    LET query_lower == Lower(user_query)
    IN  IF ContainsAny(query_lower, {<<"c","r","e","a","t","e"," ","a">>, <<"c","r","e","a","t","e"," ","f","l","a","s","k">>, <<"p","r","o","j","e","c","t">>,
                <<"s","t","r","u","c","t","u","r","e">>, <<"o","r","g","a","n","i","z","e">>, <<"s","e","t","u","p">>, <<"i","n","i","t","i","a","l","i","z","e">>,
                <<"w","e","b"," ","a","p","p","l","i","c","a","t","i","o","n">>})
        THEN "project_management"
        ELSE IF ContainsAny(query_lower, {<<"w","r","i","t","e"," ","a"," ","f","i","l","e">>, <<"c","r","e","a","t","e"," ","a"," ","f","i","l","e">>,
                <<"g","e","n","e","r","a","t","e">>, <<"b","u","i","l","d">>, <<"m","a","k","e"," ","a"," ","c","l","a","s","s">>, <<"c","r","e","a","t","e"," ","c","l","a","s","s">>,
                <<"w","r","i","t","e"," ","c","l","a","s","s">>})
        THEN "code_generation"
        ELSE IF ContainsAny(query_lower, {<<"r","e","a","d">>, <<"d","e","l","e","t","e">>, <<"f","i","n","d">>,
                <<"s","e","a","r","c","h">>, <<"s","t","r","u","c","t","u","r","e">>, <<"d","i","r","e","c","t","o","r","y">>})
        THEN "file_operations"
        ELSE IF ContainsAny(query_lower, {<<"s","y","n","t","a","x">>, <<"l","i","n","t">>, <<"c","o","m","p","l","e","x","i","t","y">>,
                <<"q","u","a","l","i","t","y">>, <<"a","n","a","l","y","z","e">>, <<"c","h","e","c","k">>, <<"v","a","l","i","d","a","t","e">>, <<"r","e","f","e","r","e","n","c","e","s">>})
        THEN "code_analysis"
        ELSE IF ContainsAny(query_lower, {<<"r","u","n">>, <<"e","x","e","c","u","t","e">>, <<"t","e","s","t">>,
                <<"i","n","s","t","a","l","l">>, <<"c","o","m","m","a","n","d">>, <<"e","n","v","i","r","o","n","m","e","n","t">>})
        THEN "code_execution"
        ELSE IF ContainsAny(query_lower, {<<"e","x","p","l","a","i","n">>, <<"u","n","d","e","r","s","t","a","n","d">>,
                <<"w","h","a","t"," ","d","o","e","s">>, <<"h","o","w"," ","d","o","e","s">>, <<"d","e","s","c","r","i","b","e">>, <<"b","r","e","a","k","d","o","w","n">>})
        THEN "explanation"
        ELSE IF ContainsAny(query_lower, {<<"e","r","r","o","r">>, <<"b","u","g">>, <<"f","i","x">>, <<"p","r","o","b","l","e","m">>,
                <<"i","s","s","u","e">>, <<"d","e","b","u","g">>, <<"t","r","o","u","b","l","e","s","h","o","o","t">>})
        THEN "debugging"
        ELSE "general_task"

\* The character class [a-zA-Z0-9_./\\-] of the file pattern.
IsFileChar(c) == IsWord(c) \/ c \in {".", "/", "\\", "-"}

\* The alternatives py|js|ts|java|cpp|c|md|txt|html|css, in their order.
file_extensions ==
    <<<<"p","y">>, <<"j","s">>, <<"t","s">>, <<"j","a","v","a">>, <<"c","p","p">>, <<"c">>, <<"m","d">>, <<"t","x","t">>,
      <<"h","t","m","l">>, <<"c","s","s">>>>

\* The length of the first alternative that matches at position p without
\* regard to case, 0 when none does.
ExtensionAt(s, p) ==
    LET fits == {k \in 1..Len(file_extensions) :
                    MatchAt(Lower(s), p, file_extensions[k])}
    IN  IF fits = {} THEN 0 ELSE Len(file_extensions[Min(fits)])

\* The last position of the run of file characters that starts at p.
FileRunEnd(s, p) ==
    LET stops == {i \in p..Len(s) : ~IsFileChar(s[i])}
    IN  IF stops = {} THEN Len(s) ELSE Min(stops) - 1

\* The dots after position i, inside the run of i, that an extension follows.
ExtensionDots(s, i) ==
    {j \in (i + 1)..FileRunEnd(s, i) : s[j] = "." /\ ExtensionAt(s, j + 1) > 0}

\* re.search of the file pattern: the leftmost start, the last dot an
\* extension follows; the empty text when nothing matches.
FileReference(s) ==
    LET starts == {i \in 1..Len(s) : IsFileChar(s[i]) /\ ExtensionDots(s, i) # {}}
    IN  IF starts = {} THEN <<>>
        ELSE LET i == Min(starts)
                 j == Max(ExtensionDots(s, i))
             IN  SubSeq(s, i, j + ExtensionAt(s, j + 1))

\* ConversationMemory.get_last_file; the empty text stands for None.
get_last_file(recent) == IF recent = <<>> THEN <<>> ELSE recent[Len(recent)]

\* ConversationMemory.find_file_by_reference; the empty text stands for None.
find_file_by_reference(user_query, recent) ==
    IF ContainsAny(Lower(user_query), {<<"i","t">>, <<"t","h","i","s">>, <<"t","h","e"," ","f","i","l","e">>, <<"t","h","a","t"," ","f","i","l","e">>})
    THEN get_last_file(recent)
    ELSE FileReference(user_query)

max_interactions == 5

max_files == 10

RECURSIVE MoveToEnd(_, _)
\* for file in files_involved: remove it from recent_files if it is there,
\* and append it.
MoveToEnd(recent, files) ==
    IF files = <<>> THEN recent
    ELSE MoveToEnd(Append(SelectSeq(recent, LAMBDA f : f # files[1]), files[1]),
                   Tail(files))

\* ConversationMemory.add_interaction: the two lists after the call.
memory_add_interaction(history, recent, user_query, res, files_involved) ==
    LET appended == Append(history, [user_query |-> user_query, result |-> res,
                                     files_involved |-> files_involved])
        moved == MoveToEnd(recent, files_involved)
    IN  [conversation_history |->
             IF Len(appended) > max_interactions THEN Tail(appended) ELSE appended,
         recent_files |->
             IF Len(moved) > max_files THEN Tail(moved) ELSE moved]

\* read_file of tools/file_tools.py: whether the content is returned.
read_file(fs_now, filepath) ==
    /\ Exists(fs_now, filepath)
    /\ fs_now[filepath].kind = "file"
    /\ fs_now[filepath].size <= MegaByte

RECURSIVE Join(_, _)
\* sep.join(parts)
Join(parts, sep) ==
    IF parts = <<>> THEN <<>>
    ELSE IF Len(parts) = 1 THEN parts[1]
    ELSE parts[1] \o sep \o Join(Tail(parts), sep)

\* The code fence of three grave accents; the character is written "grave".
CodeFence == <<"grave","grave","grave">>

\* The suggestion stripped and, when it starts with a code fence, without
\* the lines that start with one.
CleanSuggestion(tool_suggestion) ==
    LET stripped == Strip(tool_suggestion)
    IN  IF StartsWith(stripped, CodeFence)
        THEN Join(SelectSeq(SplitOn(stripped, "\n"),
                            LAMBDA line : ~StartsWith(line, CodeFence)), <<"\n">>)
        ELSE stripped

\* [line.strip() for line in tool_suggestion.split('\n') if line.strip()]
ToolLines(tool_suggestion) ==
    LET lines == SplitOn(tool_suggestion, "\n")
    IN  SelectSeq([i \in 1..Len(lines) |-> Strip(lines[i])], LAMBDA x : x # <<>>)

\* re.match(r'\w+\(.*\)', line): a run of word characters at the start, an
\* opening parenthesis right after it, a closing one somewhere behind.
IsToolCommand(line) ==
    /\ line # <<>>
    /\ IsWord(line[1])
    /\ LET e == WordRunEnd(line, 1)
       IN  /\ e < Len(line)
           /\ line[e + 1] = "("
           /\ \E j \in (e + 2)..Len(line) : line[j] = ")"

\* The lines of a suggestion the loop of the simple path hands to
\* parse_and_execute_tool.
ExecutedLines(tool_lines) ==
    SelectSeq(tool_lines, LAMBDA line :
        /\ IsToolCommand(line)
        /\ ~StartsWithAny(line, {<<"c","l","a","s","s"," ">>, <<"d","e","f"," ">>, <<"i","m","p","o","r","t"," ">>, <<"f","r","o","m"," ">>,
                                 <<"p","r","i","n","t","(">>, <<"#">>}))

\* re.search(r'filepath="([^"]*)"', tool_line): group 1 in a one-element
\* list, the empty list when nothing matches.
FilepathIn(tool_line) ==
    LET opener == <<"f","i","l","e","p","a","t","h","=","\"">>
        opens == {p \in 1..Len(tool_line) :
                     /\ MatchAt(tool_line, p, opener)
                     /\ \E q \in (p + Len(opener))..Len(tool_line) : tool_line[q] = "\""}
    IN  IF opens = {} THEN <<>>
        ELSE LET from == Min(opens) + Len(opener)
                 close == Min({q \in from..Len(tool_line) : tool_line[q] = "\""})
             IN  <<Slice(tool_line, from, close - 1)>>

RECURSIVE FilesInvolved(_)
\* The files the loop tracks: the filepath of every executed line that
\* contains write_file.
FilesInvolved(lines) ==
    IF lines = <<>> THEN <<>>
    ELSE (IF Contains(lines[1], T_write_file) THEN FilepathIn(lines[1]) ELSE <<>>)
         \o FilesInvolved(Tail(lines))

\* Agent.parse_and_execute_tool: how the call ends.  The command is matched
\* against (\w+)\((.*)\); then self.tool_registry.has_tool is read, which
\* raises AttributeError, and the except clause returns the error text.
parse_and_execute_tool(tool_command) ==
    CASE ~IsToolCommand(Strip(tool_command)) -> "invalid_format"
      [] /\ IsToolCommand(Strip(tool_command))
         /\ AttributeError(ToolRegistryAttributes, "has_tool") -> "error_executing"

\* The tool name a command names: group 1 of the match.
CommandName(tool_command) ==
    Slice(Strip(tool_command), 1, WordRunEnd(Strip(tool_command), 1))

\* One call of parse_and_execute_tool in the trace.
Attempted(tool_command) ==
    [ev |-> "parse_and_execute_tool", tool |-> CommandName(tool_command),
     params |-> <<>>, value |-> parse_and_execute_tool(tool_command)]

\* The texts the legacy agent returns.
LegacyResult(kind, ok, text) == [kind |-> kind, tool |-> <<>>, ok |-> ok, text |-> text]

\* What the user asks the legacy agent and what the language model answers
\* when it is asked.
LegacyRequests ==
    << [user_input |-> <<"e","x","p","l","a","i","n"," ","m","a","i","n",".","p","y">>, text |-> <<"I","t"," ","p","r","i","n","t","s"," ","o","n","e",".">>],
       [user_input |-> <<"r","e","a","d"," ","m","a","i","n",".","p","y">>,
        text |-> <<"r","e","a","d","_","f","i","l","e","(","f","i","l","e","p","a","t","h","=","\"","m","a","i","n",".","p","y","\"",")">>],
       [user_input |-> <<"r","u","n"," ","c","l","e","a","n","u","p">>,
        text |-> <<"d","e","l","e","t","e","_","f","i","l","e","(","f","i","l","e","p","a","t","h","=","\"","m","a","i","n",".","p","y","\"",")","\n","r","u","n","_","c","o","m","m","a","n","d","(","c","o","m","m","a","n","d","=","\"","r","m"," ","-","r","f"," ","/","d","a","t","a","\"",")">>],
       [user_input |-> <<"h","e","l","l","o">>, text |-> <<>>],
       [user_input |-> <<"h","e","l","p">>, text |-> <<>>],
       [user_input |-> <<"a","n","a","l","y","z","e"," ","m","a","i","n",".","p","y">>,
        text |-> <<"R","E","A","S","O","N","I","N","G",":"," ","l","o","o","k"," ","a","t"," ","i","t"," ","A","C","T","I","O","N",":"," ","r","e","a","d","_","f","i","l","e","(","f","i","l","e","p","a","t","h","=","\"","m","a","i","n",".","p","y","\"",")">>],
       [user_input |-> <<"e","x","p","l","a","i","n"," ","i","t">>, text |-> <<"I","t"," ","p","r","i","n","t","s"," ","o","n","e",".">>],
       [user_input |-> <<"c","l","e","a","r"," ","m","e","m","o","r","y">>, text |-> <<>>],
       [user_input |-> <<"w","r","i","t","e"," ","n","o","t","e","s">>,
        text |-> <<"grave","grave","grave","\n","w","r","i","t","e","_","f","i","l","e","(","f","i","l","e","p","a","t","h","=","\"","n","o","t","e","s",".","t","x","t","\"",","," ","c","o","n","t","e","n","t","=","\"","h","i","\"",")","\n","grave","grave","grave">>],
       [user_input |-> <<"s","h","o","w"," ","f","i","l","e","s">>, text |-> <<" "," ">>],
       [user_input |-> <<"e","x","p","l","a","i","n"," ","s","t","y","l","e",".","c","s","s">>, text |-> <<"I","t"," ","s","t","y","l","e","s",".">>],
       [user_input |-> <<"r","e","v","i","e","w"," ","m","a","i","n",".","p","y">>, text |-> <<"T","A","S","K","_","C","O","M","P","L","E","T","E",":"," ","d","o","n","e">>],
       [user_input |-> <<"d","o"," ","f","o","o">>, text |-> <<"f","o","o","(","x","=","\"","1","\"",")">>] >>

\* What one call of _simple_execute_command does: the events, the text
\* returned, whether the model was asked, and the two lists of the memory
\* after it.
_simple_execute_command(user_query, llm_text, fs_now, history, recent) ==
    LET Kept(events, res, asked) ==
            [trace |-> events, result |-> res, asked |-> asked,
             conversation_history |-> history, recent_files |-> recent]
        Stored(events, res, files) ==
            [trace |-> events, result |-> res, asked |-> TRUE] @@
            memory_add_interaction(history, recent, user_query, res, files)
        task_type == _classify_task(user_query)
        filepath == find_file_by_reference(user_query, recent)
        tool_lines == ToolLines(CleanSuggestion(llm_text))
        executed == ExecutedLines(tool_lines)
    IN  IF Lower(user_query) = <<"c","l","e","a","r"," ","m","e","m","o","r","y">>
        THEN IF AttributeError(ConversationMemoryAttributes, "clear")
             THEN Kept(<<>>, LegacyResult("error", FALSE, <<>>), FALSE)
             ELSE Kept(<<>>, LegacyResult("empty", TRUE, <<>>), FALSE)
        ELSE IF Lower(user_query) = <<"m","e","m","o","r","y"," ","s","t","a","t","s">>
        THEN IF AttributeError(ConversationMemoryAttributes, "get_stats")
             THEN Kept(<<>>, LegacyResult("error", FALSE, <<>>), FALSE)
             ELSE Kept(<<>>, LegacyResult("empty", TRUE, <<>>), FALSE)
        ELSE IF Strip(Lower(user_query)) \in {<<"h","i">>, <<"h","e","l","l","o">>, <<"h","e","y">>}
        THEN Kept(<<>>, LegacyResult("greeting", TRUE, <<>>), FALSE)
        ELSE IF Strip(Lower(user_query)) \in
                    {<<"h","e","l","p">>, <<"w","h","a","t"," ","c","a","n"," ","y","o","u"," ","d","o">>, <<"w","h","a","t"," ","c","a","n"," ","y","o","u"," ","h","e","l","p"," ","w","i","t","h">>}
        THEN Kept(<<>>, LegacyResult("help", TRUE, <<>>), FALSE)
        ELSE IF task_type = "explanation" /\ filepath # <<>>
        THEN LET read == <<Called(T_read_file,
                                  <<[k |-> K_filepath, v |-> filepath]>>)>>
             IN  IF read_file(fs_now, filepath)
                 THEN Stored(read, LegacyResult("explanation", TRUE, llm_text),
                             <<filepath>>)
                 ELSE [Stored(read, LegacyResult("file_error", FALSE, <<>>),
                              <<filepath>>) EXCEPT !.asked = FALSE]
        ELSE IF tool_lines = <<>>
        THEN Kept(<<>>, LegacyResult("no_commands", FALSE, <<>>), TRUE)
        ELSE Stored([i \in 1..Len(executed) |-> Attempted(executed[i])],
                    LegacyResult("tool_results", TRUE, <<>>),
                    FilesInvolved(executed))

\* Agent.execute_command for a query _needs_complex_reasoning does not pick
\* out: _simple_execute_command from start to return.
SimpleExecuteCommand(r) ==
    /\ program = "Agent"
    /\ pc = "idle"
    /\ turns < MaxTurns
    /\ ~_needs_complex_reasoning(LegacyRequests[r].user_input)
    /\ LET done == _simple_execute_command(LegacyRequests[r].user_input,
                       LegacyRequests[r].text, fs, conversation_history,
                       recent_files)
       IN  /\ trace' = done.trace
           /\ result' = done.result
           /\ llm_response' = IF done.asked THEN LegacyRequests[r].text ELSE <<>>
           /\ conversation_history' = done.conversation_history
           /\ recent_files' = done.recent_files
    /\ turns' = turns + 1
    /\ user_input' = LegacyRequests[r].user_input
    /\ UNCHANGED <<program, cli, pc, fs, plan, approval_history, calls,
                   agent_vars, conversation_turns>>

\* ReActAgent.max_iterations
max_iterations == 5

\* One step of execute_task in the trace.
Stepped(step, outcome) ==
    [ev |-> step, tool |-> <<>>, params |-> <<>>, value |-> outcome]

\* The ConversationTurn execute_task hands to the memory.
ConversationTurn(input, success, lessons_learned) ==
    [user_input |-> input, agent_reasoning |-> <<>>, actions_taken |-> <<>>,
     results |-> <<>>, success |-> success, lessons_learned |-> lessons_learned]

\* Agent.execute_command for a query _needs_complex_reasoning picks out:
\* ReActAgent.execute_task from start to return.  _perceive reads
\* self.tools.get_all_tools, which raises AttributeError; the except clause
\* of execute_task hands the turn to EnhancedMemory.add_conversation_turn
\* and returns the error text.  add_conversation_turn appends the turn to
\* its list and then writes it to the database; when the write raises
\* (db_fails) nothing catches it in execute_task or in execute_command.
ReActExecuteTask(r, db_fails) ==
    /\ program = "Agent"
    /\ pc = "idle"
    /\ turns < MaxTurns
    /\ _needs_complex_reasoning(LegacyRequests[r].user_input)
    /\ AttributeError(ToolRegistryAttributes, "get_all_tools")
    /\ trace' = <<Stepped("_perceive", "AttributeError"),
                  Stepped("add_conversation_turn",
                          IF db_fails THEN "sqlite3.Error" ELSE "stored")>>
    /\ conversation_turns' =
           Append(conversation_turns,
                  ConversationTurn(LegacyRequests[r].user_input, FALSE,
                                   "Error encountered"))
    /\ result' = IF db_fails THEN LegacyResult("raised", FALSE, <<>>)
                 ELSE LegacyResult("agent_error", FALSE, <<>>)
    /\ llm_response' = <<>>
    /\ turns' = turns + 1
    /\ user_input' = LegacyRequests[r].user_input
    /\ UNCHANGED <<program, cli, pc, fs, plan, approval_history, calls,
                   agent_vars, conversation_history, recent_files>>

(***************************************************************************)
(* The language model clients: GeminiClient of my_coding_agent and         *)
(* GeminiProvider of the legacy agent.  A mock response is modelled by the *)
(* branch of _mock_response that produces it.                              *)
(***************************************************************************)
\* str.strip(chars)
StripChars(s, chars) ==
    LET keep == {i \in 1..Len(s) : s[i] \notin chars}
    IN  IF keep = {} THEN <<>> ELSE Slice(s, Min(keep), Max(keep))

\* The user request GeminiClient._mock_response reads off the prompt: what
\* follows 'user request:' up to the end of that line, without the blanks
\* and double quotes around it; the whole prompt when it has no such line.
UserRequestOf(prompt) ==
    LET prompt_lower == Lower(prompt)
        marker == <<"u","s","e","r"," ","r","e","q","u","e","s","t",":">>
    IN  IF Contains(prompt_lower, marker)
        THEN LET start == Min({i \in 1..Len(prompt_lower) :
                                  MatchAt(prompt_lower, i, marker)}) + Len(marker)
                 ends == {i \in start..Len(prompt_lower) : prompt_lower[i] = "\n"}
                 end == IF ends = {} THEN Len(prompt_lower) + 1 ELSE Min(ends)
             IN  StripChars(Slice(prompt_lower, start, end - 1), {" ", "\""})
        ELSE prompt_lower

\* What a call of a client returns: a text of the live model, the mock
\* response of a branch, a text the client makes up, or an exception.
LiveText(text) == [kind |-> "live", value |-> text]

MockText(branch) == [kind |-> "mock", value |-> branch]

OwnText(text) == [kind |-> "own", value |-> text]

Raises(exception) == [kind |-> "raised", value |-> exception]

\* GeminiClient._mock_response: the branch taken for the request.  The
\* function imports re in some of its branches, which makes re a local
\* name; the branch for read and show uses it without the import.
GeminiClient_mock_response(prompt) ==
    LET user_request == UserRequestOf(prompt)
        has(word) == Contains(user_request, word)
    IN  IF has(<<"c","r","e","a","t","e">>) /\ (has(<<"f","o","l","d","e","r">>) \/ has(<<"d","i","r","e","c","t","o","r","y">>))
        THEN MockText(<<"c","r","e","a","t","e","_","f","o","l","d","e","r">>)
        ELSE IF \/ has(<<"w","r","i","t","e">>)
                \/ has(<<"c","r","e","a","t","e">>) /\ (has(<<"f","i","l","e">>) \/ has(<<".","p","y">>) \/ has(<<".","t","x","t">>))
        THEN MockText(<<"w","r","i","t","e","_","f","i","l","e">>)
        ELSE IF has(<<"r","e","a","d">>) \/ has(<<"s","h","o","w">>)
        THEN Raises("UnboundLocalError")
        ELSE IF has(<<"l","i","s","t">>)
        THEN MockText(<<"l","i","s","t","_","f","i","l","e","s">>)
        ELSE IF has(<<"d","e","l","e","t","e">>) \/ has(<<"r","e","m","o","v","e">>)
        THEN IF has(<<"f","o","l","d","e","r">>) \/ has(<<"d","i","r","e","c","t","o","r","y">>)
             THEN MockText(<<"d","e","l","e","t","e","_","f","o","l","d","e","r">>)
             ELSE MockText(<<"d","e","l","e","t","e","_","f","i","l","e">>)
        ELSE IF has(<<"r","u","n">>) \/ has(<<"e","x","e","c","u","t","e">>)
        THEN IF has(<<"p","y","t","h","o","n">>) \/ has(<<".","p","y">>)
             THEN MockText(<<"r","u","n","_","p","y","t","h","o","n">>)
             ELSE MockText(<<"r","u","n","_","c","o","m","m","a","n","d">>)
        ELSE IF has(<<"c","h","e","c","k">>) /\ (has(<<"s","y","n","t","a","x">>) \/ has(<<"e","r","r","o","r">>))
        THEN MockText(<<"c","h","e","c","k","_","s","y","n","t","a","x">>)
        ELSE IF has(<<"g","i","t">>)
        THEN MockText(<<"_","h","a","n","d","l","e","_","g","i","t","_","c","o","m","m","a","n","d">>)
        ELSE IF \E w \in {<<"l","i","n","t">>, <<"a","n","a","l","y","z","e">>, <<"s","e","c","u","r","i","t","y">>, <<"q","u","a","l","i","t","y">>} : has(w)
        THEN MockText(<<"_","h","a","n","d","l","e","_","a","n","a","l","y","s","i","s","_","c","o","m","m","a","n","d">>)
        ELSE IF \E w \in {<<"g","e","n","e","r","a","t","e">>, <<"t","e","m","p","l","a","t","e">>, <<"r","e","f","a","c","t","o","r">>, <<"s","n","i","p","p","e","t">>} : has(w)
        THEN MockText(<<"_","h","a","n","d","l","e","_","c","o","d","e","_","w","r","i","t","i","n","g","_","c","o","m","m","a","n","d">>)
        ELSE MockText(<<"c","o","n","v","e","r","s","a","t","i","o","n","a","l">>)

\* What a live call of the model does: returns a text (the empty one
\* included) or raises an exception with a message.
LiveReturns(text) == [raises |-> FALSE, text |-> text]

LiveRaises(message) == [raises |-> TRUE, text |-> message]

\* What a call of a client leaves: what the caller gets and the mock flag
\* of the client.
Left(returned, mock) == [returned |-> returned, mock_mode |-> mock]

\* GeminiClient.generate.  The mock response of an empty live response is
\* computed inside the try, so an exception of _mock_response reaches the
\* except clause, which switches to mock mode and calls _mock_response
\* again.
generate(mock, prompt, live) ==
    IF mock THEN Left(GeminiClient_mock_response(prompt), TRUE)
    ELSE IF ~live.raises /\ live.text # <<>>
    THEN Left(LiveText(Strip(live.text)), FALSE)
    ELSE IF ~live.raises /\ GeminiClient_mock_response(prompt).kind # "raised"
    THEN Left(GeminiClient_mock_response(prompt), FALSE)
    ELSE Left(GeminiClient_mock_response(prompt), TRUE)

\* GeminiProvider._mock_response: the branch taken for the prompt.
GeminiProvider_mock_response(prompt) ==
    LET prompt_lower == Lower(prompt)
        has(word) == Contains(prompt_lower, word)
        any(words) == \E w \in words : has(w)
        conversational_patterns ==
            {<<"h","i">>, <<"h","e","l","l","o">>, <<"h","e","y">>, <<"h","o","w"," ","a","r","e"," ","y","o","u">>, <<"w","h","o"," ","a","r","e"," ","y","o","u">>,
             <<"w","h","a","t"," ","a","r","e"," ","y","o","u">>, <<"h","e","l","p">>, <<"w","h","a","t"," ","c","a","n"," ","y","o","u"," ","d","o">>, <<"c","a","p","a","b","i","l","i","t","i","e","s">>,
             <<"t","h","a","n","k","s">>, <<"t","h","a","n","k"," ","y","o","u">>, <<"b","y","e">>, <<"g","o","o","d","b","y","e">>,
             <<"h","o","w","'","s"," ","i","t"," ","g","o","i","n","g">>, <<"w","h","a","t","'","s"," ","u","p">>}
        extensions == {<<".","p","y">>, <<".","j","s">>, <<".","h","t","m","l">>, <<".","c","s","s">>}
    IN  IF any(conversational_patterns)
        THEN IF any({<<"h","i">>, <<"h","e","l","l","o">>, <<"h","e","y">>}) THEN MockText(<<"g","r","e","e","t","i","n","g">>)
             ELSE IF has(<<"h","o","w"," ","a","r","e"," ","y","o","u">>) THEN MockText(<<"h","o","w"," ","a","r","e"," ","y","o","u">>)
             ELSE IF any({<<"w","h","o"," ","a","r","e"," ","y","o","u">>, <<"w","h","a","t"," ","a","r","e"," ","y","o","u">>}) THEN MockText(<<"i","d","e","n","t","i","t","y">>)
             ELSE IF any({<<"h","e","l","p">>, <<"w","h","a","t"," ","c","a","n"," ","y","o","u"," ","d","o">>, <<"c","a","p","a","b","i","l","i","t","i","e","s">>})
             THEN MockText(<<"h","e","l","p">>)
             ELSE IF any({<<"t","h","a","n","k">>, <<"t","h","a","n","k","s">>}) THEN MockText(<<"t","h","a","n","k","s">>)
             ELSE IF any({<<"b","y","e">>, <<"g","o","o","d","b","y","e">>}) THEN MockText(<<"b","y","e">>)
             ELSE MockText(<<"h","e","r","e"," ","t","o"," ","h","e","l","p">>)
        ELSE IF has(<<"s","t","r","u","c","t","u","r","e">>) THEN MockText(<<"g","e","t","_","s","t","r","u","c","t","u","r","e">>)
        ELSE IF has(<<"r","e","a","d">>) /\ any(extensions) THEN MockText(<<"r","e","a","d","_","f","i","l","e">>)
        ELSE IF has(<<"c","r","e","a","t","e">>) /\ has(<<"f","i","l","e">>) THEN MockText(<<"w","r","i","t","e","_","f","i","l","e">>)
        ELSE IF has(<<"s","e","a","r","c","h">>) THEN MockText(<<"s","e","a","r","c","h","_","c","o","d","e","b","a","s","e">>)
        ELSE IF has(<<"t","e","s","t">>) THEN MockText(<<"r","u","n","_","t","e","s","t","s">>)
        ELSE MockText(<<"d","e","f","a","u","l","t">>)

\* if "quota" in str(e).lower() or "429" in str(e) or "resource_exhausted"
\* in str(e).lower(), elif "api_key" in str(e).lower()
FallsBackToMock(message) ==
    \/ Contains(Lower(message), <<"q","u","o","t","a">>)
    \/ Contains(message, <<"4","2","9">>)
    \/ Contains(Lower(message), <<"r","e","s","o","u","r","c","e","_","e","x","h","a","u","s","t","e","d">>)
    \/ Contains(Lower(message), <<"a","p","i","_","k","e","y">>)

\* GeminiProvider.ask
ask(mock, prompt, live) ==
    IF mock THEN Left(GeminiProvider_mock_response(prompt), TRUE)
    ELSE IF ~live.raises
    THEN IF live.text # <<>> THEN Left(LiveText(live.text), FALSE)
         ELSE Left(OwnText(<<"N","o"," ","r","e","s","p","o","n","s","e"," ","g","e","n","e","r","a","t","e","d">>), FALSE)
    ELSE IF FallsBackToMock(live.text)
    THEN Left(GeminiProvider_mock_response(prompt), TRUE)
    ELSE Left(OwnText(<<"E","r","r","o","r"," ","f","r","o","m"," ","L","L","M",":"," ">> \o live.text), FALSE)

\* The prompts the clients are given.
Prompts ==
    {<<"U","S","E","R"," ","R","E","Q","U","E","S","T",":"," ","\"","r","e","a","d"," ","m","a","i","n",".","p","y","\"","\n","R","E","S","P","O","N","S","E",":">>,
     <<"U","S","E","R"," ","R","E","Q","U","E","S","T",":"," ","\"","d","e","l","e","t","e"," ","m","a","i","n",".","p","y","\"","\n","R","E","S","P","O","N","S","E",":">>,
     <<"s","h","o","w"," ","m","e"," ","t","h","e"," ","t","e","s","t","s">>,
     <<"c","r","e","a","t","e"," ","a"," ","f","o","l","d","e","r"," ","n","a","m","e","d"," ","b","u","i","l","d">>,
     <<"h","e","l","l","o">>,
     <<"r","u","n"," ","m","a","i","n",".","p","y">>}

\* What the live model does with a prompt.
LiveOutcomes ==
    {LiveReturns(<<"l","i","s","t","_","f","i","l","e","s","(",")">>), LiveReturns(<<>>),
     LiveRaises(<<"4","2","9"," ","Q","u","o","t","a"," ","e","x","c","e","e","d","e","d">>), LiveRaises(<<"I","n","v","a","l","i","d"," ","A","P","I","_","K","E","Y">>),
     LiveRaises(<<"t","i","m","e","d"," ","o","u","t">>)}

\* One call of a client, as the model remembers it.
ClientCall(method, mock, prompt, live, returned) ==
    [method |-> method, mock_mode |-> mock, prompt |-> prompt, live |-> live,
     returned |-> returned]

\* llm.generate(prompt)
Generate(prompt, live) ==
    /\ program = "GeminiClient"
    /\ Len(calls) < MaxCalls
    /\ LET left == generate(mock_mode, prompt, live)
       IN  /\ calls' = Append(calls, ClientCall("generate", mock_mode, prompt,
                                                live, left.returned))
           /\ mock_mode' = left.mock_mode
    /\ UNCHANGED <<program, cli, pc, turns, fs, user_input, llm_response,
                   plan, trace, result, approval_history, session_memory,
                   successful_patterns, context, memory_file, legacy_vars>>

\* llm.ask(prompt)
Ask(prompt, live) ==
    /\ program = "GeminiProvider"
    /\ Len(calls) < MaxCalls
    /\ LET left == ask(mock_mode, prompt, live)
       IN  /\ calls' = Append(calls, ClientCall("ask", mock_mode, prompt,
                                                live, left.returned))
           /\ mock_mode' = left.mock_mode
    /\ UNCHANGED <<program, cli, pc, turns, fs, user_input, llm_response,
                   plan, trace, result, approval_history, session_memory,
                   successful_patterns, context, memory_file, legacy_vars>>

\* GeminiClient.is_available: not self._mock_mode and self.model is not
\* None.  A client that is not in mock mode has built its model.
is_available(mock) == ~mock
(***************************************************************************)
(* The two memories on their own: ConversationMemory of the legacy agent   *)
(* and AgentMemory of my_coding_agent, each called many times in a row.    *)
(***************************************************************************)
\* The number of add_interaction calls of a session of the model: enough
\* for the list of patterns to pass PatternCap.
MaxAdds == 102

\* The lists of involved files a call of ConversationMemory.add_interaction
\* is given: none, and the files of six, four and two write_file lines.
InvolvedLists ==
    {<<>>,
     <<<<"a">>, <<"b">>, <<"c">>, <<"d">>, <<"e">>, <<"f">>>>,
     <<<<"g">>, <<"h">>, <<"i">>, <<"j">>>>,
     <<<<"k">>, <<"l">>>>}

\* self.memory.add_interaction(user_query, final_result, files_involved)
AddInteraction(files_involved) ==
    /\ program = "ConversationMemory"
    /\ LET after == memory_add_interaction(conversation_history, recent_files,
                                           <<"w","r","i","t","e">>, NoResult, files_involved)
       IN  /\ conversation_history' = after.conversation_history
           /\ recent_files' = after.recent_files
    /\ UNCHANGED <<program, cli, pc, turns, fs, user_input, llm_response, plan,
                   trace, result, approval_history, calls, agent_vars,
                   conversation_turns>>

RECURSIVE Decimal(_)
\* str(n) for a natural number.
Decimal(n) ==
    LET digit == <<"0", "1", "2", "3", "4", "5", "6", "7", "8", "9">>
    IN  IF n < 10 THEN <<digit[n + 1]>>
        ELSE Decimal(n \div 10) \o <<digit[(n % 10) + 1]>>

\* The result text of an interaction: one that starts with the cross mark
\* when ok is false.
Outcome(ok) == [kind |-> "text", tool |-> <<>>, ok |-> ok, text |-> <<>>]

\* No interaction given to the memory so far was a failure.
NoFailureYet == \A i \in 1..Len(calls) : calls[i].success

\* self.memory.add_interaction(user_input, result, context).  The user
\* input of the n-th call is the number n; a session holds at most one
\* failed interaction.  calls keeps every interaction that was given.
AgentAddInteraction(ok, save_fails) ==
    /\ program = "AgentMemory"
    /\ turns < MaxAdds
    /\ ok \/ NoFailureYet
    /\ turns' = turns + 1
    /\ user_input' = Decimal(turns')
    /\ result' = Outcome(ok)
    /\ session_memory' = add_interaction(session_memory, user_input', result')
    /\ successful_patterns' =
           IF ok
           THEN _learn_from_success(successful_patterns, user_input', result')
           ELSE successful_patterns
    /\ memory_file' =
           IF ok
           THEN _save_persistent_memory(memory_file, session_memory',
                                        successful_patterns', save_fails)
           ELSE memory_file
    /\ calls' = Append(calls, [user_input |-> user_input', result |-> result',
                               success |-> ok])
    /\ UNCHANGED <<program, cli, pc, fs, llm_response, plan, trace,
                   approval_history, context, mock_mode, legacy_vars>>

(***************************************************************************)
(* The claims.  A trace holds the events of the turn or call in progress,  *)
(* or of the last one finished.                                            *)
(***************************************************************************)
NonSafe == {"low", "medium", "high", "critical"}

Denied(tr) == \E i \in 1..Len(tr) : tr[i].ev = "ask" /\ tr[i].value = "denied"

\* C1: in a turn of the CodingAgent whose tool plan is classified other than
\* Safe and whose approval the collaborator denies, the registered function
\* of the tool is never called and the result of the turn is the
\* cancellation of that tool, whatever turns came before.
C1_DeniedPlanIsCancelled ==
    (program = "CodingAgent" /\ Denied(trace)) =>
        /\ \E i \in 1..Len(trace) :
              /\ trace[i].ev = "assess_risk"
              /\ trace[i].value \in NonSafe
        /\ EventsOf(trace, "call") = <<>>
        /\ result = Cancelled(plan.tool)

\* A second turn is denied and learnt after a first turn whose tool was
\* approved and called.
C1_Witness ==
    /\ program = "CodingAgent"
    /\ turns = 2
    /\ pc = "idle"
    /\ Denied(trace)
    /\ Len(approval_history) = 2
    /\ approval_history[1].approved
    /\ ~approval_history[2].approved

C3_LegacyCallsAreGated ==
    program = "Agent" =>
        \A i \in 1..Len(trace) :
            trace[i].ev = "call" =>
                \E j \in 1..(i - 1) :
                    /\ trace[j].ev = "assess_risk"
                    /\ trace[j].tool = trace[i].tool
                    /\ trace[j].params = trace[i].params
                    /\ trace[j].value \in RiskLevels
                    /\ trace[j].value # "safe" =>
                          \E k \in (j + 1)..(i - 1) :
                              /\ trace[k].ev = "ask"
                              /\ trace[k].value = "approved"

AskedCritical(c) ==
    /\ c.method = "request_approval"
    /\ c.asked
    /\ c.risk_level = "critical"

\* C4 as stated: a Critical operation is approved only when the typed answer
\* is exactly the phrase.
C4_ExactPhraseOnly ==
    \A i \in 1..Len(calls) :
        (AskedCritical(calls[i]) /\ calls[i].returned) =>
            calls[i].typed = RiskPhrase

\* C4: a Critical operation is approved exactly when the typed answer without
\* its leading and trailing whitespace is the phrase, at the console and at
\* the CLI; 'y' and 'yes' are denials.
C4_StrippedPhraseOnly ==
    \A i \in 1..Len(calls) :
        AskedCritical(calls[i]) =>
            /\ calls[i].returned = (Strip(calls[i].typed) = RiskPhrase)
            /\ Lower(Strip(calls[i].typed)) \in {<<"y">>, <<"y","e","s">>} =>
                  ~calls[i].returned

\* At the console 'yes' was denied and the phrase between spaces approved
\* for a Critical operation.
C4_Witness ==
    /\ ~cli
    /\ \E i \in 1..Len(calls) :
          /\ AskedCritical(calls[i])
          /\ calls[i].typed = <<"y","e","s">>
          /\ ~calls[i].returned
    /\ \E i \in 1..Len(calls) :
          /\ AskedCritical(calls[i])
          /\ calls[i].typed # RiskPhrase
          /\ calls[i].returned

\* The request_approval calls made so far whose classification is not Safe.
GatedCalls ==
    SelectSeq(calls, LAMBDA c : c.method = "request_approval"
                                /\ c.risk_level \in NonSafe)

\* C5: approval_history holds exactly one entry for every request_approval
\* call whose classification was not Safe, in call order, each with the
\* operation, the parameters, the risk level and the decision.
C5_HistoryHoldsEveryDecision ==
    /\ Len(approval_history) = Len(GatedCalls)
    /\ \A i \in 1..Len(GatedCalls) :
          i <= Len(approval_history) =>
              approval_history[i] =
                  HistoryEntry(GatedCalls[i].operation, GatedCalls[i].params,
                               GatedCalls[i].risk_level, GatedCalls[i].returned)

\* C6: assess_risk returns a risk level for every tool name and every
\* parameter map, also a map without the parameter the rule reads, and
\* never raises.
C6_AssessRiskIsTotal ==
    \A i \in 1..Len(calls) :
        calls[i].method = "assess_risk" =>
            /\ ~calls[i].raises
            /\ calls[i].risk_level \in RiskLevels

Parsed == program = "parser" /\ pc = "act"

\* C7 as stated: the plan is a tool execution, a conversation or an error,
\* and a conversation plan carries the raw text of the model.
C7_ConversationCarriesRawText ==
    Parsed =>
        /\ plan.type \in {"tool_execution", "conversation", "error"}
        /\ plan.type = "conversation" => plan.response = llm_response

\* C7: _parse_llm_response returns a plan that is a tool execution or a
\* conversation, never the null of the inference and never an error plan; a
\* conversation plan is returned exactly when no strategy finds a tool call
\* and carries the text of the model without its leading and trailing
\* whitespace.
C7_ConversationCarriesStrippedText ==
    Parsed =>
        LET response == Strip(llm_response)
            found == \/ Strategy1Opens(response) # {}
                     \/ Strategy2Valid(response, RegisteredTools) # <<>>
                     \/ _infer_tool_from_natural_language(response, user_input)
                            # None
        IN  /\ plan # None
            /\ plan.type \in {"tool_execution", "conversation"}
            /\ (plan.type = "conversation") = ~found
            /\ plan.type = "conversation" => plan.response = response

\* A text with whitespace around it came back as a conversation.
C7_Witness ==
    /\ Parsed
    /\ plan.type = "conversation"
    /\ plan.response # llm_response
    /\ plan.response # <<>>

\* C8: every tool-execution plan _parse_llm_response returns names a
\* registered tool; a text that calls an unregistered identifier ends in a
\* conversation plan.
C8_PlannedToolIsRegistered ==
    Parsed => (plan.type = "tool_execution" => plan.tool \in RegisteredTools)

ReActTurn ==
    /\ program = "Agent"
    /\ trace # <<>>
    /\ trace[1].ev = "_perceive"

\* C10: execute_task takes at most max_iterations _reason steps and at most
\* max_iterations _act steps in a turn, then takes the _learn step and
\* returns.
C10_ReActReachesLearn ==
    ReActTurn =>
        /\ Len(EventsOf(trace, "_reason")) <= max_iterations
        /\ Len(EventsOf(trace, "_act")) <= max_iterations
        /\ EventsOf(trace, "_learn") # <<>>

\* What the language model answers to a request of the legacy agent.
ReasoningFor(input) ==
    LET r == CHOOSE i \in 1..Len(LegacyRequests) :
                 LegacyRequests[i].user_input = input
    IN  LegacyRequests[r].text

Last(s) == s[Len(s)]

PersistFailed ==
    \E i \in 1..Len(trace) :
        trace[i] = Stepped("add_conversation_turn", "sqlite3.Error")

\* C12: when writing the finished turn to the store raises, nothing is
\* raised out of execute_task or process_request: the call returns the
\* text of the turn.
C12_PersistFailureIsNotRaised ==
    PersistFailed => result.kind # "raised"

\* The turn called the function of its tool and the call raised: the
\* parameter map could not be bound to the parameters of the function.
ToolRaised ==
    /\ program = "CodingAgent"
    /\ EventsOf(trace, "call") # <<>>
    /\ BindingFails(plan.tool, plan.params)

NoLiveAnswer(c) == c.mock_mode \/ c.live.raises \/ c.live.text = <<>>

\* C14: a call of GeminiClient.generate or GeminiProvider.ask that gets no
\* live answer returns the mock response of its prompt: it does not raise
\* and does not return a text of its own.
C14_FailedCallReturnsMockResponse ==
    \A i \in 1..Len(calls) :
        (calls[i].method \in {"generate", "ask"} /\ NoLiveAnswer(calls[i])) =>
            calls[i].returned.kind = "mock"

\* A turn of the CodingAgent whose model text holds no parenthesis has been
\* parsed.
PlainTextTurn ==
    /\ program = "CodingAgent"
    /\ turns > 0
    /\ ~Contains(llm_response, <<"(">>)
    /\ ~Contains(llm_response, <<")">>)

\* C15: for the user input 'delete main.py' and a model text without tool
\* syntax the plan is delete_file with filepath 'main.py'; it is classified
\* High and approval is asked before the turn ends, and a denied turn ends
\* with the cancellation and without a call of the tool.
C15_DeleteRequestIsInferred ==
    (PlainTextTurn /\ user_input = <<"d","e","l","e","t","e"," ","m","a","i","n",".","p","y">>) =>
        /\ plan = ToolPlan(T_delete_file,
                           <<[k |-> K_filepath, v |-> <<"m","a","i","n",".","p","y">>]>>,
                           plan.response)
        /\ pc \in {"learn", "idle"} =>
               /\ \E i \in 1..Len(trace) :
                      trace[i].ev = "assess_risk" /\ trace[i].value = "high"
               /\ EventsOf(trace, "ask") # <<>>
               /\ Denied(trace) =>
                      /\ result = Cancelled(T_delete_file)
                      /\ EventsOf(trace, "call") = <<>>

\* The user input asks for what one of the heuristics of the intent
\* inference answers with a tool: a file to create, a folder to create, a
\* file to show, a python file to run, the files to list.
AsksForInferredTool(input) ==
    LET user_lower == Lower(input)
        names_extension == \E ext \in {<<".","p","y">>, <<".","t","x","t">>, <<".","j","s">>, <<".","m","d">>} :
                               Contains(user_lower, ext)
    IN  \/ /\ ContainsAny(user_lower, {<<"c","r","e","a","t","e">>, <<"m","a","k","e">>, <<"w","r","i","t","e">>})
           /\ names_extension
           /\ FilenameMatch(input) # <<>>
        \/ /\ Contains(user_lower, <<"c","r","e","a","t","e">>)
           /\ ContainsAny(user_lower, {<<"f","o","l","d","e","r">>, <<"d","i","r","e","c","t","o","r","y">>})
        \/ /\ ContainsAny(user_lower, {<<"s","h","o","w">>, <<"r","e","a","d">>, <<"d","i","s","p","l","a","y">>})
           /\ names_extension
           /\ FilenameMatch(input) # <<>>
        \/ /\ Contains(user_lower, <<"r","u","n">>)
           /\ PyFilenameMatch(input) # <<>>
        \/ /\ Contains(user_lower, <<"l","i","s","t">>)
           /\ ContainsAny(user_lower, {<<"f","i","l","e">>, <<"d","i","r","e","c","t","o","r","y">>})

\* The turn looked no tool up and called none: it ended, if it has ended,
\* with the response of its conversation plan.
NoToolInTurn ==
    /\ plan.type = "conversation"
    /\ trace = <<>>
    /\ pc \in {"learn", "idle"} => result = Said(plan.response)

\* C16 as the specification states it: whatever the user input, a model
\* text without parentheses becomes a conversation plan carrying exactly
\* that text, and the turn looks no tool up and calls none.
C16_PlainTextIsConversation ==
    PlainTextTurn => (plan = ConversationPlan(llm_response) /\ NoToolInTurn)

\* C16: a model text without parentheses, in a turn whose user input asks
\* for nothing the intent inference answers with a tool, becomes a
\* conversation plan carrying that text without the whitespace around it,
\* and the turn looks no tool up and calls none.
C16_PlainTextIsStrippedConversation ==
    (PlainTextTurn /\ ~AsksForInferredTool(user_input)) =>
        (plan = ConversationPlan(Strip(llm_response)) /\ NoToolInTurn)

\* A turn has ended with the stripped text of the model as its answer, the
\* text having had a blank at its end.
C16_Witness ==
    /\ PlainTextTurn
    /\ ~AsksForInferredTool(user_input)
    /\ pc = "idle"
    /\ Strip(llm_response) # llm_response
    /\ result = Said(Strip(llm_response))
    /\ trace = <<>>

\* The calls of assess_risk on the operations ops that returned a level.
Classified(ops) ==
    SelectSeq(calls, LAMBDA c : /\ c.method = "assess_risk"
                                /\ c.operation \in ops
                                /\ ~c.raises)

\* The names of the critical directories.
CriticalDirectoryNames ==
    {<<".","g","i","t">>, <<"n","o","d","e","_","m","o","d","u","l","e","s">>, <<"_","_","p","y","c","a","c","h","e","_","_">>, <<".","v","e","n","v">>, <<"v","e","n","v">>,
     <<"s","r","c">>, <<"l","i","b">>, <<"b","i","n">>, <<"c","o","r","e">>, <<"s","y","s","t","e","m">>}

\* The class C17 gives the deletion of the folder at path.
FolderClass(path) ==
    IF ~Exists(fs, path) THEN "safe"
    ELSE IF ContainsAny(Lower(path), CriticalDirectoryNames) THEN "high"
    ELSE IF fs[path].items > 50 THEN "high"
    ELSE IF fs[path].items >= 11 THEN "medium"
    ELSE IF fs[path].items >= 1 THEN "low"
    ELSE "safe"

\* C17: delete_folder is Safe for a path that does not exist, High for a
\* directory whose name or path holds the name of a critical directory or
\* that holds more than 50 entries, Medium for 11 to 50 entries, Low for 1
\* to 10 entries and Safe for an existing empty directory.
C17_FolderDeletionClasses ==
    \A i \in 1..Len(Classified({T_delete_folder})) :
        LET c == Classified({T_delete_folder})[i]
            path == DictGet(c.params, K_folderpath)
        IN  (Exists(fs, path) => fs[path].kind = "dir") =>
                c.risk_level = FolderClass(path)

\* The most severe tier a substring of which the command holds.
CommandTier(command) ==
    LET lower == Lower(command)
    IN  IF ContainsAny(lower, critical_commands) THEN "critical"
        ELSE IF ContainsAny(lower, high_risk) THEN "high"
        ELSE IF ContainsAny(lower, medium_risk) THEN "medium"
        ELSE "low"

\* C18: a command is classified by the most severe tier it matches,
\* 'sudo apt install' High and 'chmod 777 x' Critical, a command matching
\* no tier is Low, and no command is Safe: requires_approval answers yes
\* for every command.
C18_MostSevereTierWins ==
    \A i \in 1..Len(calls) :
        LET c == calls[i]
            command == DictGet(c.params, K_command)
        IN  (c.operation = T_run_command /\ ~c.raises
                 /\ c.method \in {"assess_risk", "requires_approval"}) =>
                /\ c.risk_level = CommandTier(command)
                /\ c.risk_level # "safe"
                /\ Contains(command, <<"s","u","d","o"," ","a","p","t"," ","i","n","s","t","a","l","l">>) => c.risk_level = "high"
                /\ Contains(command, <<"c","h","m","o","d"," ","7","7","7">>) => c.risk_level = "critical"
                /\ c.method = "requires_approval" => c.returned

\* A command that matches the high and the medium tier was classified High,
\* and a command that matches no tier needed approval.
C18_Witness ==
    /\ \E i \in 1..Len(calls) :
          /\ calls[i].method = "assess_risk"
          /\ calls[i].params = <<[k |-> K_command, v |-> <<"s","u","d","o"," ","a","p","t"," ","i","n","s","t","a","l","l"," ","x">>]>>
          /\ calls[i].risk_level = "high"
    /\ \E i \in 1..Len(calls) :
          /\ calls[i].method = "requires_approval"
          /\ calls[i].params = <<[k |-> K_command, v |-> <<"l","s"," ","-","l","a">>]>>
          /\ calls[i].risk_level = "low"
          /\ calls[i].returned

\* C19: git_push and git_pull are High for the branches main, master and
\* production; for every other branch git_push is Medium and git_pull Low.
C19_ProtectedBranchIsHigh ==
    \A i \in 1..Len(Classified({T_git_push, T_git_pull})) :
        LET c == Classified({T_git_push, T_git_pull})[i]
            branch == DictGetOr(c.params, K_branch, <<>>)
        IN  c.risk_level =
                IF branch \in {<<"m","a","i","n">>, <<"m","a","s","t","e","r">>, <<"p","r","o","d","u","c","t","i","o","n">>} THEN "high"
                ELSE IF c.operation = T_git_push THEN "medium"
                ELSE "low"

\* C20: parse_and_execute_tool on a well-formed command calls the function
\* registered under the name of the command once and returns its result,
\* and for a name that is not registered returns 'tool not found' and
\* calls nothing.
C20_CommandCallsItsTool ==
    program = "Agent" =>
        \A i \in 1..Len(trace) :
            (trace[i].ev = "parse_and_execute_tool"
                 /\ trace[i].value # "invalid_format") =>
                IF trace[i].tool \in LegacyTools
                THEN /\ trace[i].value = "returned"
                     /\ Len(SelectSeq(trace, LAMBDA e :
                                e.ev = "call" /\ e.tool = trace[i].tool))
                        = Len(SelectSeq(trace, LAMBDA e :
                                e.ev = "parse_and_execute_tool"
                                    /\ e.tool = trace[i].tool))
                ELSE /\ trace[i].value = "tool_not_found"
                     /\ EventsOf(trace, "call") = <<>>

\* The turn went through execute_task and the text the model gives for its
\* request names an action and does not declare the task complete.
ActionTurn ==
    /\ ReActTurn
    /\ Contains(ReasoningFor(user_input), <<"A","C","T","I","O","N",":">>)
    /\ ~Contains(ReasoningFor(user_input), <<"T","A","S","K","_","C","O","M","P","L","E","T","E">>)

C23_PerceiveCompletes ==
    ReActTurn =>
        /\ trace[1].value # "AttributeError"
        /\ Len(trace) >= 2
        /\ trace[2].ev = "_reason"

\* The parser was given a text without a call and a user input that asks
\* to create a folder or a directory: the plan comes from intent inference.
AsksForFolder ==
    /\ Parsed
    /\ ~Contains(llm_response, <<"(">>)
    /\ Contains(Lower(user_input), <<"c","r","e","a","t","e">>)
    /\ ContainsAny(Lower(user_input), {<<"f","o","l","d","e","r">>, <<"d","i","r","e","c","t","o","r","y">>})

\* C24: a user input with create and folder or directory yields a
\* create_folder plan, also when a filename-like token follows, as in
\* 'create a folder report.txt'.
C24_FolderHeuristicFirst ==
    AsksForFolder => (plan.type = "tool_execution" /\ plan.tool = T_create_folder)

\* The parser returned a tool plan for a text whose argument text is args.
DecodedFrom(args) ==
    /\ Parsed
    /\ plan.type = "tool_execution"
    /\ Contains(llm_response, args)

\* C25: when the argument text gives filepath and its synonym file_path,
\* in either order, the parameter map of the plan holds under filepath the
\* value that was given under filepath.
C25_CanonicalKeyIsKept ==
    \A args \in {<<"(","f","i","l","e","p","a","t","h","=","\"","a","\"",","," ","f","i","l","e","_","p","a","t","h","=","\"","b","\"",")">>,
                 <<"(","f","i","l","e","_","p","a","t","h","=","\"","b","\"",","," ","f","i","l","e","p","a","t","h","=","\"","a","\"",")">>} :
        DecodedFrom(args) => DictGetOr(plan.params, K_filepath, <<>>) = <<"a">>

\* C26: when the argument text gives the key k twice, the parameter map
\* of the plan holds under k the value of the second occurrence, for two
\* bare values and for a single-quoted value followed by a double-quoted one.
C26_LastOccurrenceWins ==
    \A args \in {<<"(","k","=","a",","," ","k","=","b",")">>, <<"(","k","=","'","a","'",","," ","k","=","\"","b","\"",")">>} :
        DecodedFrom(args) => DictGetOr(plan.params, <<"k">>, <<>>) = <<"b">>

\* C27: after every call of ConversationMemory.add_interaction
\* conversation_history holds at most max_interactions entries and
\* recent_files at most max_files entries.
C27_SizeCapsHold ==
    program = "ConversationMemory" =>
        /\ Len(conversation_history) <= max_interactions
        /\ Len(recent_files) <= max_files

\* C28: after every call of AgentMemory.add_interaction session_memory
\* holds at most SessionCap interactions, and they are the most recent
\* ones that were given, in the order they were given; the call that makes
\* the 51st entry leaves the SessionKeep most recent; successful_patterns
\* never holds more than PatternCap entries.
C28_MemoryCapsHold ==
    program = "AgentMemory" =>
        /\ Len(session_memory) <= SessionCap
        /\ Len(session_memory) <= Len(calls)
        /\ session_memory =
               SubSeq(calls, Len(calls) - Len(session_memory) + 1, Len(calls))
        /\ Len(calls) = SessionCap + 1 => Len(session_memory) = SessionKeep
        /\ Len(successful_patterns) <= PatternCap

\* Both lists have been cut: more than PatternCap interactions succeeded,
\* the patterns are down to PatternKeep and the session memory starts at
\* the interaction its last cut left first.
C28_Witness ==
    /\ program = "AgentMemory"
    /\ Len(calls) > PatternCap
    /\ NoFailureYet
    /\ Len(successful_patterns) = PatternKeep
    /\ Len(session_memory) < SessionCap
    /\ session_memory[1].user_input = <<"6","4">>

\* C29: every call of GeminiClient.generate made in mock mode returns the
\* mock response of its prompt and leaves the client in mock mode, so the
\* next call is made in mock mode too and is_available is false after it.
C29_MockModeIsSticky ==
    program = "GeminiClient" =>
        \A j \in 1..Len(calls) :
            calls[j].mock_mode =>
                /\ calls[j].returned.kind = "mock"
                /\ IF j < Len(calls) THEN calls[j + 1].mock_mode
                   ELSE ~is_available(mock_mode)

\* C30: whenever the function of run_command is called with a command the
\* risk gate classifies Critical, the command is on the block list of the
\* tool and the turn does not end in a success of the command.
C30_CriticalCommandIsBlocked ==
    program = "CodingAgent" =>
        \A i \in 1..Len(trace) :
            (/\ trace[i].ev = "call"
             /\ trace[i].tool = T_run_command
             /\ DictHas(trace[i].params, K_command)
             /\ _assess_command_risk(trace[i].params) = "critical") =>
                /\ ContainsAny(Lower(DictGet(trace[i].params, K_command)),
                               dangerous_commands)
                /\ ~result.ok

(***************************************************************************)
(* The specifications.                                                     *)
(***************************************************************************)
\* Nothing has been asked, decided or remembered yet.
Blank ==
    /\ turns = 0
    /\ plan = None
    /\ trace = <<>>
    /\ result = NoResult
    /\ approval_history = <<>>
    /\ calls = <<>>
    /\ session_memory = <<>>
    /\ successful_patterns = <<>>
    /\ context = <<>>
    /\ memory_file = <<>>
    /\ conversation_history = <<>>
    /\ recent_files = <<>>
    /\ conversation_turns = <<>>

\* The agent of my_coding_agent after create_agent, with or without a CLI,
\* or the legacy Agent after its construction.
Init ==
    /\ \/ program = "CodingAgent" /\ cli \in BOOLEAN
       \/ program = "Agent" /\ cli = FALSE
    /\ pc = "idle"
    /\ fs = InitialFs
    /\ user_input = <<>>
    /\ llm_response = <<>>
    /\ mock_mode = FALSE
    /\ Blank

Next ==
    \/ \E r \in 1..Len(Requests) : Reason(r)
    \/ Act
    \/ \E typed \in Answers : Approve(typed)
    \/ \E save_fails \in BOOLEAN : Learn(save_fails)
    \/ \E r \in 1..Len(LegacyRequests) : SimpleExecuteCommand(r)
    \/ \E r \in 1..Len(LegacyRequests), db_fails \in BOOLEAN :
           ReActExecuteTask(r, db_fails)

Spec == Init /\ [][Next]_vars

\* SafetyApprovalSystem after construction, with or without a CLI.
InitGate ==
    /\ program = "SafetyApprovalSystem"
    /\ cli \in BOOLEAN
    /\ pc = "idle"
    /\ fs \in GateFileSystems
    /\ user_input = <<>>
    /\ llm_response = <<>>
    /\ mock_mode = FALSE
    /\ Blank

NextGate ==
    \/ \E i \in 1..Len(GateCalls) : AssessRisk(GateCalls[i])
    \/ \E i \in 1..Len(GateCalls) : RequiresApproval(GateCalls[i])
    \/ \E i \in 1..Len(GateCalls), typed \in GateAnswers \cup {<<>>} :
           RequestApproval(GateCalls[i], typed)

SpecGate == InitGate /\ [][NextGate]_vars

\* SafetyApprovalSystem after construction, in the directory of RiskFs.
InitRisk ==
    /\ program = "SafetyApprovalSystem"
    /\ cli = FALSE
    /\ pc = "idle"
    /\ fs = RiskFs
    /\ user_input = <<>>
    /\ llm_response = <<>>
    /\ mock_mode = FALSE
    /\ Blank

NextRisk ==
    \/ \E c \in RiskCalls : AssessRisk(c)
    \/ \E c \in CommandCalls : RequiresApproval(c)

SpecRisk == InitRisk /\ [][NextRisk]_vars

\* The parser before it is given one text and one user input.
InitParse ==
    /\ program = "parser"
    /\ cli = FALSE
    /\ pc = "reason"
    /\ fs = InitialFs
    /\ user_input \in ParseInputs
    /\ llm_response \in ParseTexts
    /\ mock_mode = FALSE
    /\ Blank

NextParse == ParseResponse

SpecParse == InitParse /\ [][NextParse]_vars

\* A client after construction: in mock mode when it was given no key or
\* could not reach the model, live otherwise.
InitLLM ==
    /\ program \in {"GeminiClient", "GeminiProvider"}
    /\ mock_mode \in BOOLEAN
    /\ cli = FALSE
    /\ pc = "idle"
    /\ fs = InitialFs
    /\ user_input = <<>>
    /\ llm_response = <<>>
    /\ Blank

NextLLM ==
    \/ \E prompt \in Prompts, live \in LiveOutcomes : Generate(prompt, live)
    \/ \E prompt \in Prompts, live \in LiveOutcomes : Ask(prompt, live)

SpecLLM == InitLLM /\ [][NextLLM]_vars

\* A ConversationMemory or an AgentMemory after construction, with no
\* memory file to load.
InitMemory ==
    /\ program \in {"ConversationMemory", "AgentMemory"}
    /\ cli = FALSE
    /\ pc = "idle"
    /\ fs = InitialFs
    /\ user_input = <<>>
    /\ llm_response = <<>>
    /\ mock_mode = FALSE
    /\ Blank

NextMemory ==
    \/ \E files_involved \in InvolvedLists : AddInteraction(files_involved)
    \/ \E ok \in BOOLEAN, save_fails \in BOOLEAN :
           AgentAddInteraction(ok, save_fails)

SpecMemory == InitMemory /\ [][NextMemory]_vars

====
